---- MODULE Spec2Model ----
(***************************************************************************)
(* ech-tunnel: the client's multi-channel pool (pool.go), its local        *)
(* handlers (tcp_client.go, socks5.go), the ECH dial (tcp_client.go) and    *)
(* the server demultiplexer (proxy.go), as state machines.                  *)
(*                                                                          *)
(* Strings are sequences of one-character strings, so that the frame codec  *)
(* (concatenation on the sending side, HasPrefix / SplitN on the receiving  *)
(* side) is modelled by what it does.                                       *)
(***************************************************************************)
EXTENDS Integers, Sequences, FiniteSets, TLC

(***************************************************************************)
(* Bounds of the model.                                                     *)
(***************************************************************************)
\* number of channels of the pool (flag -n)
NumChannels == 2
\* number of transport failures injected over a run
MaxFail == 1
\* number of chunks the local application writes after the first frame
MaxChunks == 1
\* number of datagrams the local application sends over a UDP association
MaxDgram == 2
\* number of frames a peer sends of its own accord
MaxInject == 2
\* number of requests the server's HTTP handler gets
MaxReq == 2
\* number of bits of an IP address
AddrBits == 2
\* number of frames one connection brings to the server
MaxSrvIn == 3
\* number of frames the read loop of the association's channel reads
MaxLoopIn == 3

\* dialWebSocketWithECH(p.wsServerAddr, 2)
MaxRetries == 2

(***************************************************************************)
(* Strings.                                                                 *)
(***************************************************************************)
Bar == "|"

HasPrefix(s, p) ==
    /\ Len(s) >= Len(p)
    /\ SubSeq(s, 1, Len(p)) = p

Drop(s, n) ==
    SubSeq(s, n + 1, Len(s))

TrimPrefix(s, p) ==
    IF HasPrefix(s, p) THEN Drop(s, Len(p)) ELSE s

\* index of the first occurrence of character c in s, 0 when there is none
Index(s, c) ==
    IF \E i \in 1..Len(s) : s[i] = c
    THEN CHOOSE i \in 1..Len(s) : s[i] = c /\ \A j \in 1..(i - 1) : s[j] # c
    ELSE 0

RECURSIVE SplitEvery(_, _, _)
\* a parser that would split at every separator, as strings.Split does
SplitEvery(s, sep, n) ==
    IF Index(s, sep) = 0
    THEN << s >>
    ELSE << SubSeq(s, 1, Index(s, sep) - 1) >> \o SplitEvery(Drop(s, Index(s, sep)), sep, n)

RECURSIVE SplitN(_, _, _)
\* strings.SplitN(s, sep, n) for a one-character sep and n >= 1
SplitN(s, sep, n) ==
    IF n = 1 \/ Index(s, sep) = 0
    THEN << s >>
    ELSE << SubSeq(s, 1, Index(s, sep) - 1) >> \o SplitN(Drop(s, Index(s, sep)), sep, n - 1)

DigitChars == << "0", "1", "2", "3", "4", "5", "6", "7", "8", "9" >>

RECURSIVE Itoa(_)
\* fmt.Sprintf("%d", i) for i >= 0
Itoa(i) ==
    IF i < 10
    THEN << DigitChars[i + 1] >>
    ELSE Itoa(i \div 10) \o << DigitChars[(i % 10) + 1] >>

(***************************************************************************)
(* Go maps as functions whose domain changes.                               *)
(***************************************************************************)
EmptyMap == << >>

MapPut(m, k, v) ==
    [x \in (DOMAIN m) \cup {k} |-> IF x = k THEN v ELSE m[x]]

MapDel(m, k) ==
    [x \in (DOMAIN m) \ {k} |-> m[x]]

(***************************************************************************)
(* Frame codec: the tags and the frames each side builds.                   *)
(***************************************************************************)
Text == "Text"
Binary == "Binary"


\* the prefixes of the frames
Tag ==
    [ CLAIM |-> << "C", "L", "A", "I", "M", ":" >>,
      CLAIM_ACK |-> << "C", "L", "A", "I", "M", "_", "A", "C", "K", ":" >>,
      TCP |-> << "T", "C", "P", ":" >>,
      DATA |-> << "D", "A", "T", "A", ":" >>,
      CONNECTED |-> << "C", "O", "N", "N", "E", "C", "T", "E", "D", ":" >>,
      CLOSE |-> << "C", "L", "O", "S", "E", ":" >>,
      ERROR |-> << "E", "R", "R", "O", "R", ":" >>,
      UDP_CONNECT |-> << "U", "D", "P", "_", "C", "O", "N", "N", "E", "C", "T", ":" >>,
      UDP_CONNECTED |-> << "U", "D", "P", "_", "C", "O", "N", "N", "E", "C", "T", "E", "D", ":" >>,
      UDP_DATA |-> << "U", "D", "P", "_", "D", "A", "T", "A", ":" >>,
      UDP_CLOSE |-> << "U", "D", "P", "_", "C", "L", "O", "S", "E", ":" >>,
      UDP_ERROR |-> << "U", "D", "P", "_", "E", "R", "R", "O", "R", ":" >> ]

Frame(mt, msg) == [mt |-> mt, msg |-> msg]

\* a CLAIM that would carry the index of the first channel whatever the channel
ClaimFrameOfFirst(id, i) == Frame(Text, Tag.CLAIM \o id \o << Bar >> \o Itoa(0))

\* pool.go:96  "CLAIM:"+connID+"|"+fmt.Sprintf("%d", i), Text
ClaimFrame(id, i) == Frame(Text, Tag.CLAIM \o id \o << Bar >> \o Itoa(i))

\* pool.go:359  "TCP:"+connID+"|"+info.targetAddr+"|"+info.firstFrameData, Text
TcpFrame(id, target, first) ==
    Frame(Text, Tag.TCP \o id \o << Bar >> \o target \o << Bar >> \o first)

\* pool.go:433  "DATA:"+connID+"|"+string(b), Text
ClientDataFrame(id, b) == Frame(Text, Tag.DATA \o id \o << Bar >> \o b)

\* pool.go:451  "CLOSE:"+connID, Text
CloseFrame(id) == Frame(Text, Tag.CLOSE \o id)

\* proxy.go:838  "CLAIM_ACK:"+connID+"|"+channelID, Text
ClaimAckFrame(id, chstr) == Frame(Text, Tag.CLAIM_ACK \o id \o << Bar >> \o chstr)

\* proxy.go:936  "CONNECTED:"+connID, Text
ConnectedFrame(id) == Frame(Text, Tag.CONNECTED \o id)

\* proxy.go:971  "DATA:"+connID+"|" followed by buf[:n], Binary
ServerDataFrame(id, b) == Frame(Binary, Tag.DATA \o id \o << Bar >> \o b)

\* server.go:583-588  fmt.Sprintf("DATA:%s|%d|", connID, currentSeq) followed by buf[:n], Binary
ServerDataFrameSeq(id, seq, b) ==
    Frame(Binary, Tag.DATA \o id \o << Bar >> \o Itoa(seq) \o << Bar >> \o b)

\* pool.go:139  "UDP_CONNECT:"+connID+"|"+target, Text
UdpConnectFrame(id, target) == Frame(Text, Tag.UDP_CONNECT \o id \o << Bar >> \o target)

\* pool.go:159-161  "UDP_DATA:"+connID+"|" followed by data, Binary
UdpDataFrame(id, data) == Frame(Binary, Tag.UDP_DATA \o id \o << Bar >> \o data)

\* pool.go:182  "UDP_CLOSE:"+connID, Text
UdpCloseFrame(id) == Frame(Text, Tag.UDP_CLOSE \o id)

\* proxy.go:811  "UDP_CONNECTED:"+connID, Text
UdpConnectedFrame(id) == Frame(Text, Tag.UDP_CONNECTED \o id)

\* proxy.go:742, 752  "UDP_ERROR:"+connID+"|"+reason, Text
UdpErrorFrame(id) == Frame(Text, Tag.UDP_ERROR \o id \o << Bar, "e" >>)

(***************************************************************************)
(* The sessions and the data of a run.                                      *)
(***************************************************************************)
Chans == 0..(NumChannels - 1)

\* uuid.New().String(): distinct strings without '|' or ':'
TcpIds == { << "a" >> }
UdpIds == { << "u" >> }
Ids == TcpIds \cup UdpIds

\* the target of the forwarding rule or of the CONNECT request, "host:port"
Target == << "h", ":", "7" >>
\* the destination of the local application's datagrams
UdpTarget == << "d", ":", "5" >>

\* what the first read of the local socket may return (empty on timeout)
FirstFrames == { << >>, << "f", Bar >> }

\* what the local application may write in one write, and the origin in one
Payloads == { << "x" >>, << Bar, "y" >> }

\* the SOCKS5 replies written to the local socket (10 bytes each, one symbol here)
SocksOK == << "S" >>
SocksFail == << "E" >>

VARIABLES
    \* ECHPool
    connectionNum,  \* the pool size given to NewECHPool (flag -n)
    wsConns,        \* [Chans -> Nat]: 0 is nil, g > 0 the g-th connection dialed
    tcpMap,         \* set of ids: the keys of tcpMap (an id maps to its local socket)
    channelMap,     \* map id -> channel
    connInfo,       \* map id -> [targetAddr, firstFrameData]
    claimTimes,     \* map id -> set of channels (the keys of the inner map)
    connected,      \* map id -> number of values buffered in the chan bool (cap 1)
    boundByChannel, \* map channel -> id
    closeTasks,     \* ids of the goroutines "go p.SendClose(id)" not yet run
    emitting,       \* [Chans -> map]: the TCP frame the read loop is about to write
    crashed,        \* the process panicked
    readers,        \* [Chans -> set of connections]: those a handleChannel loop reads
    \* the transports
    alive,          \* [Chans -> BOOLEAN]: the current connection still works
    fails,          \* failures injected so far
    c2s, s2c,       \* [Chans -> Seq(frame)]: frames in flight on the current connection
    \* the local handlers, per session
    pc,             \* "idle", "claim", "wait", "pump", "done"
    mode,           \* "tcp" (tcp_client.go) or "socks5" (socks5.go)
    claimI,         \* the index of RegisterAndClaim's loop
    waitRes,        \* what WaitConnected returned: "none", "true", "false"
    closeCalls,     \* number of Close() calls on the local socket
    sockIn,         \* bytes written to the local socket, in order
    appOut,         \* bytes the local application wrote, the first frame included
    nChunks,        \* number of writes of the local application
    \* the server, per channel (one handleWebSocket per connection)
    srvDial,        \* handleTCPConnection goroutines that have not dialed yet
    srvConns,       \* set of ids: the keys of conns (an id maps to its origin socket)
    srvSock,        \* map id -> [got, buf, closed]: the origin socket of a running pump
    \* the UDP associations (socks5.go) and the server's UDP sockets
    udpMap,         \* set of ids: the keys of udpMap
    upc,            \* "idle", "relay", "closed"
    receiving,      \* UDPAssociation.receiving
    nDgram,         \* datagrams the local application sent
    srvUdp,         \* [Chans -> set of ids]: the keys of udpConns / udpTargets
    srvUdpOut,      \* [Chans -> Seq(payload)]: datagrams sent to the target
    \* history
    nAck, nBind, nTcpEmit, firstBound, nConnRecv,
    calls,          \* map operation -> what its last call found and returned
    \* the writers of one channel's WebSockets and their mutexes
    lgen,           \* the number of connections the channel has had
    wpc,            \* [Writers -> "idle", "locked", "writing"]
    wws,            \* map writer -> connection: the WebSocket a writer at work writes to
    holder,         \* [mutex -> set of writers]: who holds it, nobody when empty
    \* a peer that is not this server
    nInject,        \* frames it has sent of its own accord
    \* the ECH dial
    echList,        \* the cached ECHConfigList
    srvKey,         \* the ECH config the server honours at present
    mainPc,         \* "prepare" until main's prepareECH returned, then "started"
    dpc,            \* [Chans -> "dial", "refresh", "running"]
    attempt,        \* [Chans -> 1..MaxRetries]: dialWebSocketWithECH's loop variable
    hs,             \* [Chans -> [offered, honoured]]: the handshake of the connection
    offered,        \* the ECH config lists of all the ClientHellos sent so far
    nEnv,           \* key rotations and connection losses so far
    \* the server's HTTP handler
    token,          \* flag -token
    allowedNets,    \* the networks of flag -cidr
    alog,           \* the requests handled: [ip, proto, status, ws]
    \* one handleWebSocket of the server with its goroutines
    wsOpen,         \* its read loop runs: ReadMessage has not failed, ctx is not cancelled
    inbox,          \* frames of the client not yet read
    nIn,            \* frames the client has sent
    conns,          \* set of ids: the keys of conns
    tcpGo,          \* map id -> [pc, first]: the handleTCPConnection of id
    origin,         \* map id -> the origin socket of id
    wsOut,          \* the frames written to the WebSocket, in order
    udpConns,       \* map id -> [open, pump]: the UDP socket of id and its goroutine
    \* one UDPAssociation of the client and the goroutines that use it
    apc,            \* where each goroutine is: main, ctl, relay, waiter, loop
    done,           \* number of values buffered in assoc.done (capacity DoneCap)
    assoc,          \* [closed, receiving, listener, bound, registered]
    clientUDPAddr,  \* 0 is nil, else the source address latched
    buffer,         \* the datagram in handleUDPRelay's buffer: [src, n], n = 0 none
    handlers,       \* number of handleUDPPacket goroutines started and not yet run
    recvd,          \* source addresses of the datagrams read by ReadFromUDP
    assocOut,       \* the frames the association has sent: [kind, src, n]
    nLoop,          \* number of frames the channel's read loop has read
    \* the way back of a UDP association (proxy.go:780-803, pool.go:239-256)
    udpIn,          \* UDP_DATA frames in flight to the association's read loop
    replied,        \* what the server's UDP socket received: [host, port, data]
    peerOut,        \* SOCKS5 UDP packets written to clientUDPAddr: [atyp, host, port, data]
    \* the client's goroutines at the locks of the pool (p.mu, p.wsMutexes)
    tprog,          \* [Threads -> Seq(op)]: the lock and I/O steps of the operation a goroutine runs
    tpc,            \* [Threads -> Nat]: the step it is to take next
    muW,            \* set of goroutines holding p.mu for writing
    muR,            \* set of goroutines holding p.mu for reading
    wsHeld,         \* [MuChans -> set of goroutines]: the holders of p.wsMutexes[c]
    \* the ping tickers of handleChannel (pool.go:220-228)
    pingers,        \* [Chans -> map]: connection g -> [pc, failed], the ticker goroutines
                    \* that run: "waiting" for a tick or "writing", a write has failed
    \* the read pump of one session of the server with the congestion controller
    controller,     \* [cwnd, inFlight] of the session's ViolentCongestionController, in bytes
    srvPump,        \* [pc, n, reads, read, sent, idle]: the pump's position, the bytes of the
                    \* read at hand, the reads done, the bytes read, the bytes written, and
                    \* whether the last read ended by its deadline
    ctxDone         \* the context of the WebSocket is cancelled

poolVars == << connectionNum, wsConns, tcpMap, channelMap, connInfo, claimTimes, connected,
               boundByChannel, closeTasks, emitting, crashed, readers >>
netVars == << alive, fails, c2s, s2c >>
localVars == << pc, mode, claimI, waitRes, closeCalls, sockIn, appOut, nChunks >>
srvVars == << srvDial, srvConns, srvSock >>
histVars == << nAck, nBind, nTcpEmit, firstBound, nConnRecv, calls >>
udpVars == << udpMap, upc, receiving, nDgram, srvUdp, srvUdpOut >>
mainVars == << poolVars, netVars, localVars, srvVars, histVars, udpVars >>
lockVars == << lgen, wpc, wws, holder >>
openVars == << nInject >>
echVars == << echList, srvKey, mainPc, dpc, attempt, hs, offered, nEnv >>
authVars == << token, allowedNets, alog >>
hwVars == << wsOpen, inbox, nIn, conns, tcpGo, origin, wsOut, udpConns >>
assocVars == << apc, done, assoc, clientUDPAddr, buffer, handlers, recvd, assocOut, nLoop >>
replyVars == << udpIn, replied, peerOut >>
muVars == << tprog, tpc, muW, muR, wsHeld >>
pingVars == << pingers >>
ccVars == << controller, srvPump, ctxDone >>
moreVars == << replyVars, muVars, pingVars, ccVars >>
sideVars == << lockVars, openVars, echVars, authVars, hwVars, assocVars, moreVars >>
vars == << mainVars, sideVars >>

\* NewECHPool(wsServerAddr, n), before Start
InitPool(n) ==
    /\ connectionNum = n
    /\ wsConns = [c \in Chans |-> 0]
    /\ tcpMap = {}
    /\ channelMap = EmptyMap
    /\ connInfo = EmptyMap
    /\ claimTimes = EmptyMap
    /\ connected = EmptyMap
    /\ boundByChannel = EmptyMap
    /\ closeTasks = {}
    /\ emitting = [c \in Chans |-> EmptyMap]
    /\ crashed = FALSE
    /\ readers = [c \in Chans |-> {}]
    /\ alive = [c \in Chans |-> FALSE]
    /\ fails = 0
    /\ c2s = [c \in Chans |-> << >>]
    /\ s2c = [c \in Chans |-> << >>]
    /\ pc = [id \in TcpIds |-> "idle"]
    /\ mode = [id \in TcpIds |-> "tcp"]
    /\ claimI = [id \in TcpIds |-> 0]
    /\ waitRes = [id \in Ids |-> "none"]
    /\ closeCalls = [id \in TcpIds |-> 0]
    /\ sockIn = [id \in TcpIds |-> << >>]
    /\ appOut = [id \in TcpIds |-> << >>]
    /\ nChunks = [id \in TcpIds |-> 0]
    /\ srvDial = [c \in Chans |-> {}]
    /\ srvConns = [c \in Chans |-> {}]
    /\ srvSock = [c \in Chans |-> EmptyMap]
    /\ nAck = [id \in Ids |-> 0]
    /\ nBind = [id \in Ids |-> 0]
    /\ nTcpEmit = [id \in Ids |-> 0]
    /\ firstBound = EmptyMap
    /\ nConnRecv = [id \in Ids |-> 0]
    /\ calls = EmptyMap
    /\ udpMap = {}
    /\ upc = [u \in UdpIds |-> "idle"]
    /\ receiving = [u \in UdpIds |-> FALSE]
    /\ nDgram = [u \in UdpIds |-> 0]
    /\ srvUdp = [c \in Chans |-> {}]
    /\ srvUdpOut = [c \in Chans |-> << >>]

(***************************************************************************)
(* The transports.                                                          *)
(***************************************************************************)
\* what WriteMessage may return on channel c: nil on a working connection; on a
\* broken one an error, or nil with the frame lost in the kernel's buffer
WriteErrs(c) == IF alive[c] THEN { FALSE } ELSE { TRUE, FALSE }

\* the frames in flight after WriteMessage(frame) on channel c
Sent(q, c, frame) == IF alive[c] THEN [q EXCEPT ![c] = Append(@, frame)] ELSE q

\* dialOnce: the dial succeeds, the slot is set and handleChannel starts
DialOnce(c) ==
    /\ ~crashed
    /\ c < connectionNum
    /\ wsConns[c] = 0
    /\ wsConns' = [wsConns EXCEPT ![c] = 1]
    /\ readers' = [readers EXCEPT ![c] = @ \cup {1}]
    /\ alive' = [alive EXCEPT ![c] = TRUE]
    /\ UNCHANGED << connectionNum, tcpMap, channelMap, connInfo, claimTimes, connected,
                    boundByChannel, closeTasks, emitting, crashed >>
    /\ UNCHANGED << fails, c2s, s2c >>
    /\ UNCHANGED << localVars, srvVars, histVars >>
    /\ UNCHANGED udpVars
    /\ UNCHANGED sideVars

\* the transport of channel c breaks: the frames in flight are lost, and the
\* server's handleWebSocket for it leaves its read loop and runs its deferred
\* cleanup (proxy.go:637-663): every origin socket is closed, the maps emptied
TransportFail(c) ==
    /\ alive[c]
    /\ fails < MaxFail
    /\ fails' = fails + 1
    /\ alive' = [alive EXCEPT ![c] = FALSE]
    /\ c2s' = [c2s EXCEPT ![c] = << >>]
    /\ s2c' = [s2c EXCEPT ![c] = << >>]
    /\ srvDial' = [srvDial EXCEPT ![c] = {}]
    /\ srvConns' = [srvConns EXCEPT ![c] = {}]
    /\ srvSock' = [srvSock EXCEPT ![c] = EmptyMap]
    /\ srvUdp' = [srvUdp EXCEPT ![c] = {}]
    /\ UNCHANGED << poolVars, localVars, histVars >>
    /\ UNCHANGED << udpMap, upc, receiving, nDgram, srvUdpOut >>
    /\ UNCHANGED sideVars

\* a redial whose caller would go on reading the connection that failed
LoopsKeptAfterRedial(rs, g) ==
    rs \cup {g + 1}

\* the read loops of a channel after the loop of connection g redialed: the new
\* connection has its own, and the old one returns (pool.go:235-236, 415-416)
LoopsAfterRedial(rs, g) ==
    (rs \ {g}) \cup {g + 1}

\* handleChannel's ReadMessage fails, redialChannel dials until it succeeds,
\* sets the slot and starts a new handleChannel (pool.go:231-237, 406-418)
RedialChannel(c) ==
    /\ ~crashed
    /\ wsConns[c] # 0
    /\ ~alive[c]
    /\ emitting[c] = EmptyMap
    /\ wsConns' = [wsConns EXCEPT ![c] = @ + 1]
    /\ readers' = [readers EXCEPT ![c] = LoopsAfterRedial(@, wsConns[c])]
    /\ alive' = [alive EXCEPT ![c] = TRUE]
    /\ UNCHANGED << connectionNum, tcpMap, channelMap, connInfo, claimTimes, connected,
                    boundByChannel, closeTasks, emitting, crashed >>
    /\ UNCHANGED << fails, c2s, s2c >>
    /\ UNCHANGED << localVars, srvVars, histVars >>
    /\ UNCHANGED udpVars
    /\ UNCHANGED sideVars

(***************************************************************************)
(* ECHPool: the operations the local handlers call.                         *)
(***************************************************************************)
\* the frames in flight after SendClose(id): nothing is written when the
\* session has no channel or the slot is nil (pool.go:439-454)
AfterSendClose(q, id) ==
    IF id \in DOMAIN channelMap /\ wsConns[channelMap[id]] # 0
    THEN Sent(q, channelMap[id], CloseFrame(id))
    ELSE q

\* SendData's lookup fails: "未分配通道" (pool.go:422-431)
SendDataUnbound(id) ==
    \/ id \notin DOMAIN channelMap
    \/ wsConns[channelMap[id]] = 0

\* the goroutine "go p.SendClose(id)" started by the read loop runs
AsyncSendClose(id) ==
    /\ ~crashed
    /\ id \in closeTasks
    /\ closeTasks' = closeTasks \ {id}
    /\ c2s' = AfterSendClose(c2s, id)
    /\ UNCHANGED << connectionNum, readers, wsConns, tcpMap, channelMap, connInfo, claimTimes, connected,
                    boundByChannel, emitting, crashed >>
    /\ UNCHANGED << alive, fails, s2c >>
    /\ UNCHANGED << localVars, srvVars, histVars >>
    /\ UNCHANGED udpVars
    /\ UNCHANGED sideVars

(***************************************************************************)
(* The local handlers: startMultiChannelTCPForwarder (tcp_client.go) and    *)
(* handleSOCKS5Connect under handleProxyConnection (socks5.go, proxy.go).   *)
(***************************************************************************)
\* accept, the first read, and RegisterAndClaim's registration (pool.go:77-86)
Accept(id, m, first) ==
    /\ ~crashed
    /\ pc[id] = "idle"
    /\ pc' = [pc EXCEPT ![id] = "claim"]
    /\ mode' = [mode EXCEPT ![id] = m]
    /\ claimI' = [claimI EXCEPT ![id] = 0]
    /\ tcpMap' = tcpMap \cup {id}
    /\ connInfo' = MapPut(connInfo, id, [targetAddr |-> Target, firstFrameData |-> first])
    /\ claimTimes' = IF id \in DOMAIN claimTimes THEN claimTimes ELSE MapPut(claimTimes, id, {})
    /\ connected' = IF id \in DOMAIN connected THEN connected ELSE MapPut(connected, id, 0)
    /\ UNCHANGED << connectionNum, readers, wsConns, channelMap, boundByChannel, closeTasks, emitting, crashed >>
    /\ appOut' = [appOut EXCEPT ![id] = first]
    /\ UNCHANGED << netVars, srvVars, histVars >>
    /\ UNCHANGED << waitRes, closeCalls, sockIn, nChunks >>
    /\ UNCHANGED udpVars
    /\ UNCHANGED sideVars

\* one iteration of RegisterAndClaim's loop over wsConns (pool.go:88-101): a nil
\* slot is skipped; otherwise the claim time is recorded and CLAIM is written.
\* Writing into claimTimes[id] after a handler deleted it is a write to a nil
\* map: the process panics.
ClaimStep(id) ==
    /\ ~crashed
    /\ pc[id] = "claim"
    /\ LET i == claimI[id]
           nil == wsConns[i] = 0
           panics == ~nil /\ id \notin DOMAIN claimTimes
       IN  /\ crashed' = panics
           /\ claimTimes' = IF nil \/ panics THEN claimTimes
                            ELSE [claimTimes EXCEPT ![id] = @ \cup {i}]
           /\ c2s' = IF nil \/ panics THEN c2s ELSE Sent(c2s, i, ClaimFrame(id, i))
           /\ claimI' = [claimI EXCEPT ![id] = i + 1]
           /\ pc' = [pc EXCEPT ![id] = IF i + 1 = connectionNum THEN "wait" ELSE "claim"]
    /\ UNCHANGED << connectionNum, readers, wsConns, tcpMap, channelMap, connInfo, connected,
                    boundByChannel, closeTasks, emitting >>
    /\ UNCHANGED << alive, fails, s2c >>
    /\ UNCHANGED << mode, waitRes, closeCalls, sockIn, appOut, nChunks >>
    /\ UNCHANGED << srvVars, histVars >>
    /\ UNCHANGED udpVars
    /\ UNCHANGED sideVars

\* a select that would take its receive case with nothing in the chan
ChanReadyAlways(id) ==
    id \in DOMAIN connected

\* the receive case of WaitConnected's select can proceed (pool.go:204)
ChanReady(id) ==
    id \in DOMAIN connected /\ connected[id] = 1

\* WaitConnected receives from the session's chan (pool.go:204-205). The TCP
\* forwarder then starts its pump; the SOCKS5 handler first writes its success
\* reply, and returns (handleProxyConnection closing the socket) if that fails.
WaitTrue(id) ==
    /\ ~crashed
    /\ pc[id] = "wait"
    /\ ChanReady(id)
    /\ connected' = [connected EXCEPT ![id] = 0]
    /\ waitRes' = [waitRes EXCEPT ![id] = "true"]
    /\ IF mode[id] = "socks5" /\ closeCalls[id] > 0
       THEN /\ pc' = [pc EXCEPT ![id] = "done"]
            /\ closeCalls' = [closeCalls EXCEPT ![id] = @ + 1]
            /\ sockIn' = sockIn
       ELSE /\ pc' = [pc EXCEPT ![id] = "pump"]
            /\ closeCalls' = closeCalls
            /\ sockIn' = IF mode[id] = "socks5"
                         THEN [sockIn EXCEPT ![id] = @ \o SocksOK]
                         ELSE sockIn
    /\ UNCHANGED << connectionNum, readers, wsConns, tcpMap, channelMap, connInfo, claimTimes,
                    boundByChannel, closeTasks, emitting, crashed >>
    /\ UNCHANGED << netVars, srvVars, histVars >>
    /\ UNCHANGED << mode, claimI, appOut, nChunks >>
    /\ UNCHANGED udpVars
    /\ UNCHANGED sideVars

\* WaitConnected times out (pool.go:206-207): the TCP forwarder closes the local
\* socket (tcp_client.go:130-134); the SOCKS5 handler writes its failure reply
\* and returns, and handleProxyConnection's defer closes it (socks5.go:288-291)
WaitTimeout(id) ==
    /\ ~crashed
    /\ pc[id] = "wait"
    /\ waitRes' = [waitRes EXCEPT ![id] = "false"]
    /\ pc' = [pc EXCEPT ![id] = "done"]
    /\ sockIn' = IF mode[id] = "socks5" /\ closeCalls[id] = 0
                 THEN [sockIn EXCEPT ![id] = @ \o SocksFail]
                 ELSE sockIn
    /\ closeCalls' = [closeCalls EXCEPT ![id] = @ + 1]
    /\ UNCHANGED << poolVars, netVars, srvVars, histVars >>
    /\ UNCHANGED << mode, claimI, appOut, nChunks >>
    /\ UNCHANGED udpVars
    /\ UNCHANGED sideVars

\* a deferred exit that would forget the session without closing its socket
PumpExitNoClose(id, q) ==
    /\ c2s' = AfterSendClose(q, id)
    /\ pc' = [pc EXCEPT ![id] = "done"]
    /\ closeCalls' = closeCalls
    /\ tcpMap' = IF mode[id] = "socks5" THEN tcpMap \ {id} ELSE tcpMap

\* the pump's deferred exit: SendClose, Close; the SOCKS5 handler also deletes
\* the tcpMap entry, and handleProxyConnection's defer closes the socket again
\* (tcp_client.go:137-140, socks5.go:296-303, proxy.go:96)
PumpExit(id, q) ==
    /\ c2s' = AfterSendClose(q, id)
    /\ pc' = [pc EXCEPT ![id] = "done"]
    /\ closeCalls' = [closeCalls EXCEPT ![id] = IF mode[id] = "socks5" THEN @ + 2 ELSE @ + 1]
    /\ tcpMap' = IF mode[id] = "socks5" THEN tcpMap \ {id} ELSE tcpMap

\* the pump reads what the local application wrote and calls SendData
\* (tcp_client.go:143-152, socks5.go:306-315); an error ends the pump
PumpSend(id, b) ==
    /\ ~crashed
    /\ pc[id] = "pump"
    /\ closeCalls[id] = 0
    /\ nChunks[id] < MaxChunks
    /\ nChunks' = [nChunks EXCEPT ![id] = @ + 1]
    /\ appOut' = [appOut EXCEPT ![id] = @ \o b]
    /\ IF SendDataUnbound(id)
       THEN PumpExit(id, c2s)
       ELSE \E err \in WriteErrs(channelMap[id]) :
                IF err
                THEN PumpExit(id, c2s)
                ELSE /\ c2s' = Sent(c2s, channelMap[id], ClientDataFrame(id, b))
                     /\ UNCHANGED << pc, closeCalls, tcpMap >>
    /\ UNCHANGED << connectionNum, readers, wsConns, channelMap, connInfo, claimTimes, connected,
                    boundByChannel, closeTasks, emitting, crashed >>
    /\ UNCHANGED << alive, fails, s2c >>
    /\ UNCHANGED << mode, claimI, waitRes, sockIn >>
    /\ UNCHANGED << srvVars, histVars >>
    /\ UNCHANGED udpVars
    /\ UNCHANGED sideVars

\* the pump's Read fails: the local application closed, or the socket was
\* closed by the read loop
PumpReadErr(id) ==
    /\ ~crashed
    /\ pc[id] = "pump"
    /\ PumpExit(id, c2s)
    /\ UNCHANGED << connectionNum, readers, wsConns, channelMap, connInfo, claimTimes, connected,
                    boundByChannel, closeTasks, emitting, crashed >>
    /\ UNCHANGED << alive, fails, s2c >>
    /\ UNCHANGED << mode, claimI, waitRes, sockIn, appOut, nChunks >>
    /\ UNCHANGED << srvVars, histVars >>
    /\ UNCHANGED udpVars
    /\ UNCHANGED sideVars

(***************************************************************************)
(* ECHPool.handleChannel: the read loop of channel c (pool.go:230-402).     *)
(***************************************************************************)
\* the branch of handleChannel a message takes, in the order of its tests
ClientKind(f) ==
    IF f.mt = Binary
    THEN IF Len(f.msg) > 9 /\ HasPrefix(f.msg, Tag.UDP_DATA) THEN "UDP_DATA"
         ELSE IF /\ Len(f.msg) > 5
                 /\ HasPrefix(f.msg, Tag.DATA)
                 /\ Len(SplitN(Drop(f.msg, 5), Bar, 2)) = 2 THEN "DATA"
         ELSE "FALLBACK"
    ELSE IF HasPrefix(f.msg, Tag.UDP_CONNECTED) THEN "UDP_CONNECTED"
    ELSE IF HasPrefix(f.msg, Tag.UDP_ERROR) THEN "UDP_ERROR"
    ELSE IF HasPrefix(f.msg, Tag.CLAIM_ACK) THEN "CLAIM_ACK"
    ELSE IF HasPrefix(f.msg, Tag.CONNECTED) THEN "CONNECTED"
    ELSE IF HasPrefix(f.msg, Tag.ERROR) THEN "ERROR"
    ELSE IF HasPrefix(f.msg, Tag.CLOSE) THEN "CLOSE"
    ELSE "OTHER"

\* ReadMessage returns the next frame of channel c, of the given branch
ClientReads(c, kind) ==
    /\ ~crashed
    /\ emitting[c] = EmptyMap
    /\ s2c[c] # << >>
    /\ ClientKind(Head(s2c[c])) = kind

\* a lookup that would find nothing
InfoOfNothing(id) ==
    [targetAddr |-> << >>, firstFrameData |-> << >>]

\* what "info, ok := p.connInfo[connID]" yields: the zero value for a missing key
InfoOf(id) ==
    IF id \in DOMAIN connInfo
    THEN connInfo[id]
    ELSE [targetAddr |-> << >>, firstFrameData |-> << >>]

\* a CLAIM_ACK branch that would not test whether the id is still pending
AckBindsUnlessBound(id) ==
    id \notin DOMAIN channelMap

\* the CLAIM_ACK branch binds: the id has no channel yet and is still pending
\* (pool.go:334-342)
AckBinds(id) ==
    /\ id \notin DOMAIN channelMap
    /\ id \in DOMAIN connInfo

\* claimTimes after the winner's entry is dropped (pool.go:344-352)
ClaimTimesAfterBind(id, c) ==
    IF id \in DOMAIN claimTimes /\ c \in claimTimes[id]
    THEN IF claimTimes[id] \ {c} = {}
         THEN MapDel(claimTimes, id)
         ELSE [claimTimes EXCEPT ![id] = @ \ {c}]
    ELSE claimTimes

\* history: the channel of the first binding of each id, and which connection
\* of that channel was the current one
FirstBinding(id, c) ==
    IF id \in DOMAIN firstBound
    THEN firstBound
    ELSE MapPut(firstBound, id, [ch |-> c, gen |-> wsConns[c]])

Count(h, id) == IF id \in DOMAIN h THEN [h EXCEPT ![id] = @ + 1] ELSE h

\* CLAIM_ACK:<id>|<ch> (pool.go:329-356): under the registry lock, the first
\* ACK of a pending id binds it to this channel; any other is ignored
RecvClaimAck(c) ==
    /\ ClientReads(c, "CLAIM_ACK")
    /\ s2c' = [s2c EXCEPT ![c] = Tail(@)]
    /\ LET parts == SplitN(Drop(Head(s2c[c]).msg, 10), Bar, 2)
           id == parts[1]
       IN  IF Len(parts) = 2 /\ AckBinds(id)
           THEN /\ claimTimes' = ClaimTimesAfterBind(id, c)
                /\ channelMap' = MapPut(channelMap, id, c)
                /\ boundByChannel' = MapPut(boundByChannel, c, id)
                /\ connInfo' = MapDel(connInfo, id)
                /\ emitting' = [emitting EXCEPT ![c] = [id |-> id, info |-> InfoOf(id)]]
                /\ nAck' = Count(nAck, id)
                /\ nBind' = Count(nBind, id)
                /\ firstBound' = FirstBinding(id, c)
           ELSE /\ UNCHANGED << claimTimes, channelMap, boundByChannel, connInfo,
                                emitting, nBind, firstBound >>
                /\ nAck' = IF Len(parts) = 2 THEN Count(nAck, id) ELSE nAck
    /\ UNCHANGED << connectionNum, readers, wsConns, tcpMap, connected, closeTasks, crashed >>
    /\ UNCHANGED << alive, fails, c2s >>
    /\ UNCHANGED << localVars, srvVars, nTcpEmit, nConnRecv, calls >>
    /\ UNCHANGED udpVars
    /\ UNCHANGED sideVars

\* an emitter that would only close the local socket when its write fails
EmitTcpKeepsBinding(c) ==
    /\ ~crashed
    /\ emitting[c] # EmptyMap
    /\ emitting' = [emitting EXCEPT ![c] = EmptyMap]
    /\ LET id == emitting[c].id
           info == emitting[c].info
       IN  /\ nTcpEmit' = Count(nTcpEmit, id)
           /\ \E err \in WriteErrs(c) :
                IF err
                THEN /\ closeCalls' = IF id \in tcpMap
                                      THEN [closeCalls EXCEPT ![id] = @ + 1]
                                      ELSE closeCalls
                     /\ tcpMap' = tcpMap \ {id}
                     /\ UNCHANGED << c2s, channelMap, boundByChannel, connInfo, claimTimes >>
                ELSE /\ c2s' = Sent(c2s, c, TcpFrame(id, info.targetAddr, info.firstFrameData))
                     /\ UNCHANGED << closeCalls, tcpMap, channelMap, boundByChannel,
                                     connInfo, claimTimes >>
    /\ UNCHANGED << connectionNum, readers, wsConns, connected, closeTasks, crashed >>
    /\ UNCHANGED << alive, fails, s2c >>
    /\ UNCHANGED << pc, mode, claimI, waitRes, sockIn, appOut, nChunks >>
    /\ UNCHANGED << srvVars, nAck, nBind, firstBound, nConnRecv, calls >>
    /\ UNCHANGED udpVars
    /\ UNCHANGED sideVars

\* the winner writes TCP:<id>|<target>|<first> on its own connection; when the
\* write fails the session is closed and removed (pool.go:358-373)
EmitTcp(c) ==
    /\ ~crashed
    /\ emitting[c] # EmptyMap
    /\ emitting' = [emitting EXCEPT ![c] = EmptyMap]
    /\ LET id == emitting[c].id
           info == emitting[c].info
       IN  /\ nTcpEmit' = Count(nTcpEmit, id)
           /\ \E err \in WriteErrs(c) :
                IF err
                THEN /\ closeCalls' = IF id \in tcpMap
                                      THEN [closeCalls EXCEPT ![id] = @ + 1]
                                      ELSE closeCalls
                     /\ tcpMap' = tcpMap \ {id}
                     /\ channelMap' = MapDel(channelMap, id)
                     /\ boundByChannel' = MapDel(boundByChannel, c)
                     /\ connInfo' = MapDel(connInfo, id)
                     /\ claimTimes' = MapDel(claimTimes, id)
                     /\ c2s' = c2s
                ELSE /\ c2s' = Sent(c2s, c, TcpFrame(id, info.targetAddr, info.firstFrameData))
                     /\ UNCHANGED << closeCalls, tcpMap, channelMap, boundByChannel,
                                     connInfo, claimTimes >>
    /\ UNCHANGED << connectionNum, readers, wsConns, connected, closeTasks, crashed >>
    /\ UNCHANGED << alive, fails, s2c >>
    /\ UNCHANGED << pc, mode, claimI, waitRes, sockIn, appOut, nChunks >>
    /\ UNCHANGED << srvVars, nAck, nBind, firstBound, nConnRecv, calls >>
    /\ UNCHANGED udpVars
    /\ UNCHANGED sideVars

\* CONNECTED:<id> (pool.go:375-385): a send on the session's chan that never
\* blocks; it is dropped when the buffer already holds a value
RecvConnected(c) ==
    /\ ClientReads(c, "CONNECTED")
    /\ s2c' = [s2c EXCEPT ![c] = Tail(@)]
    /\ LET id == TrimPrefix(Head(s2c[c]).msg, Tag.CONNECTED)
       IN  /\ connected' = IF id \in DOMAIN connected
                           THEN [connected EXCEPT ![id] = 1]
                           ELSE connected
           /\ nConnRecv' = Count(nConnRecv, id)
    /\ UNCHANGED << connectionNum, readers, wsConns, tcpMap, channelMap, connInfo, claimTimes,
                    boundByChannel, closeTasks, emitting, crashed >>
    /\ UNCHANGED << alive, fails, c2s >>
    /\ UNCHANGED << localVars, srvVars, nAck, nBind, nTcpEmit, firstBound, calls >>
    /\ UNCHANGED udpVars
    /\ UNCHANGED sideVars

\* CLOSE:<id> (pool.go:388-400)
RecvClose(c) ==
    /\ ClientReads(c, "CLOSE")
    /\ s2c' = [s2c EXCEPT ![c] = Tail(@)]
    /\ LET id == TrimPrefix(Head(s2c[c]).msg, Tag.CLOSE)
       IN  /\ closeCalls' = IF id \in tcpMap
                            THEN [closeCalls EXCEPT ![id] = @ + 1]
                            ELSE closeCalls
           /\ tcpMap' = tcpMap \ {id}
           /\ channelMap' = MapDel(channelMap, id)
           /\ connInfo' = MapDel(connInfo, id)
           /\ claimTimes' = MapDel(claimTimes, id)
           /\ boundByChannel' = MapDel(boundByChannel, c)
    /\ UNCHANGED << connectionNum, readers, wsConns, connected, closeTasks, emitting, crashed >>
    /\ UNCHANGED << alive, fails, c2s >>
    /\ UNCHANGED << pc, mode, claimI, waitRes, sockIn, appOut, nChunks >>
    /\ UNCHANGED << srvVars, histVars >>
    /\ UNCHANGED udpVars
    /\ UNCHANGED sideVars

\* a write that would put the payload before what the socket already got
SockWriteFirst(buf, payload) ==
    payload \o buf

\* c.Write(payload) on the local socket (pool.go:269)
SockWrite(buf, payload) ==
    buf \o payload

\* Binary DATA:<id>|<payload> (pool.go:259-282): the payload is written to the
\* session's local socket; a failed write closes and removes the session and
\* starts SendClose; so does a frame for an id that has no socket
RecvData(c) ==
    /\ ClientReads(c, "DATA")
    /\ s2c' = [s2c EXCEPT ![c] = Tail(@)]
    /\ LET parts == SplitN(Drop(Head(s2c[c]).msg, 5), Bar, 2)
           id == parts[1]
           payload == parts[2]
       IN  IF id \in tcpMap
           THEN IF closeCalls[id] = 0
                THEN /\ sockIn' = [sockIn EXCEPT ![id] = SockWrite(@, payload)]
                     /\ UNCHANGED << closeTasks, closeCalls, tcpMap >>
                ELSE /\ closeTasks' = closeTasks \cup {id}
                     /\ closeCalls' = [closeCalls EXCEPT ![id] = @ + 1]
                     /\ tcpMap' = tcpMap \ {id}
                     /\ sockIn' = sockIn
           ELSE /\ closeTasks' = closeTasks \cup {id}
                /\ UNCHANGED << closeCalls, tcpMap, sockIn >>
    /\ UNCHANGED << connectionNum, readers, wsConns, channelMap, connInfo, claimTimes, connected,
                    boundByChannel, emitting, crashed >>
    /\ UNCHANGED << alive, fails, c2s >>
    /\ UNCHANGED << pc, mode, claimI, waitRes, appOut, nChunks >>
    /\ UNCHANGED << srvVars, histVars >>
    /\ UNCHANGED udpVars
    /\ UNCHANGED sideVars

(***************************************************************************)
(* The server: handleWebSocket and handleTCPConnection (proxy.go:624-985),  *)
(* one instance per connection, with an origin that echoes.                 *)
(***************************************************************************)
\* the branch of handleWebSocket a message takes, in the order of its tests
ServerKind(f) ==
    IF f.mt = Binary
    THEN IF Len(f.msg) > 9 /\ HasPrefix(f.msg, Tag.UDP_DATA) THEN "UDP_DATA"
         ELSE IF Len(f.msg) > 5 /\ HasPrefix(f.msg, Tag.DATA) THEN "DATA"
         ELSE "OTHER"
    ELSE IF HasPrefix(f.msg, Tag.UDP_CONNECT) THEN "UDP_CONNECT"
    ELSE IF HasPrefix(f.msg, Tag.UDP_CLOSE) THEN "UDP_CLOSE"
    ELSE IF HasPrefix(f.msg, Tag.CLAIM) THEN "CLAIM"
    ELSE IF HasPrefix(f.msg, Tag.TCP) THEN "TCP"
    ELSE IF HasPrefix(f.msg, Tag.DATA) THEN "DATA"
    ELSE IF HasPrefix(f.msg, Tag.CLOSE) THEN "CLOSE"
    ELSE "OTHER"

ServerReads(c, kind) ==
    /\ c2s[c] # << >>
    /\ ServerKind(Head(c2s[c])) = kind

\* a CLAIM branch that would answer nothing
SrvClaimSilent(c) ==
    /\ ServerReads(c, "CLAIM")
    /\ c2s' = [c2s EXCEPT ![c] = Tail(@)]
    /\ UNCHANGED << poolVars, alive, fails, s2c, localVars, srvVars, histVars >>
    /\ UNCHANGED udpVars
    /\ UNCHANGED sideVars

\* CLAIM:<id>|<ch> is answered CLAIM_ACK:<id>|<ch>; nothing is kept
\* (proxy.go:832-842)
SrvClaim(c) ==
    /\ ServerReads(c, "CLAIM")
    /\ c2s' = [c2s EXCEPT ![c] = Tail(@)]
    /\ LET parts == SplitN(Drop(Head(c2s[c]).msg, 6), Bar, 2)
       IN  s2c' = IF Len(parts) = 2
                  THEN Sent(s2c, c, ClaimAckFrame(parts[1], parts[2]))
                  ELSE s2c
    /\ UNCHANGED << poolVars, alive, fails, localVars, srvVars, histVars >>
    /\ UNCHANGED udpVars
    /\ UNCHANGED sideVars

\* TCP:<id>|<target>|<first> starts handleTCPConnection (proxy.go:845-860)
SrvTcp(c) ==
    /\ ServerReads(c, "TCP")
    /\ c2s' = [c2s EXCEPT ![c] = Tail(@)]
    /\ LET parts == SplitN(Drop(Head(c2s[c]).msg, 4), Bar, 3)
       IN  srvDial' = IF Len(parts) >= 2
                      THEN [srvDial EXCEPT ![c] = @ \cup
                              { [id |-> parts[1], target |-> parts[2],
                                 first |-> IF Len(parts) = 3 THEN parts[3] ELSE << >>] }]
                      ELSE srvDial
    /\ UNCHANGED << poolVars, alive, fails, s2c, localVars, srvConns, srvSock, histVars >>
    /\ UNCHANGED udpVars
    /\ UNCHANGED sideVars

\* handleTCPConnection: the dial fails and CLOSE:<id> is sent; or it succeeds,
\* the socket is stored, the first frame written to it, CONNECTED:<id> sent
\* and the read pump started (proxy.go:900-941). The origin echoes.
SrvDial(c, r, ok) ==
    /\ r \in srvDial[c]
    /\ srvDial' = [srvDial EXCEPT ![c] = @ \ {r}]
    /\ IF ok
       THEN /\ srvConns' = [srvConns EXCEPT ![c] = @ \cup {r.id}]
            /\ srvSock' = [srvSock EXCEPT ![c] =
                              MapPut(@, r.id, [got |-> r.first, buf |-> r.first, closed |-> FALSE, seq |-> 0])]
            /\ s2c' = Sent(s2c, c, ConnectedFrame(r.id))
       ELSE /\ s2c' = Sent(s2c, c, CloseFrame(r.id))
            /\ UNCHANGED << srvConns, srvSock >>
    /\ UNCHANGED << poolVars, alive, fails, c2s, localVars, histVars >>
    /\ UNCHANGED udpVars
    /\ UNCHANGED sideVars

\* Text DATA:<id>|<payload>: the payload is written to the origin socket of id
\* (proxy.go:861-875)
SrvData(c) ==
    /\ ServerReads(c, "DATA")
    /\ c2s' = [c2s EXCEPT ![c] = Tail(@)]
    /\ LET parts == SplitN(Drop(Head(c2s[c]).msg, 5), Bar, 2)
       IN  srvSock' = IF Len(parts) = 2 /\ parts[1] \in srvConns[c]
                      THEN [srvSock EXCEPT ![c][parts[1]] =
                              [@ EXCEPT !.got = @ \o parts[2], !.buf = @ \o parts[2]]]
                      ELSE srvSock
    /\ UNCHANGED << poolVars, alive, fails, s2c, localVars, srvDial, srvConns, histVars >>
    /\ UNCHANGED udpVars
    /\ UNCHANGED sideVars

\* CLOSE:<id>: the origin socket is closed and forgotten (proxy.go:876-887)
SrvClose(c) ==
    /\ ServerReads(c, "CLOSE")
    /\ c2s' = [c2s EXCEPT ![c] = Tail(@)]
    /\ LET id == TrimPrefix(Head(c2s[c]).msg, Tag.CLOSE)
       IN  /\ srvConns' = [srvConns EXCEPT ![c] = @ \ {id}]
           /\ srvSock' = IF id \in srvConns[c]
                         THEN [srvSock EXCEPT ![c][id].closed = TRUE]
                         ELSE srvSock
    /\ UNCHANGED << poolVars, alive, fails, s2c, localVars, srvDial, histVars >>
    /\ UNCHANGED udpVars
    /\ UNCHANGED sideVars

\* the read pump reads n bytes of the origin and sends them as a Binary DATA
\* frame (proxy.go:955-972)
SrvPumpData(c, id, n) ==
    /\ id \in DOMAIN srvSock[c]
    /\ ~srvSock[c][id].closed
    /\ n \in 1..Len(srvSock[c][id].buf)
    /\ s2c' = Sent(s2c, c, ServerDataFrame(id, SubSeq(srvSock[c][id].buf, 1, n)))
    /\ srvSock' = [srvSock EXCEPT ![c][id].buf = Drop(@, n)]
    /\ UNCHANGED << poolVars, alive, fails, c2s, localVars, srvDial, srvConns, histVars >>
    /\ UNCHANGED udpVars
    /\ UNCHANGED sideVars

\* the read pump of the server variant with the congestion controller reads n
\* bytes of the origin, counts the frame and sends it with its sequence number
\* (server.go:553-598; the bytes in flight here stay below the window)
SrvPumpDataSeq(c, id, n) ==
    /\ id \in DOMAIN srvSock[c]
    /\ ~srvSock[c][id].closed
    /\ n \in 1..Len(srvSock[c][id].buf)
    /\ s2c' = Sent(s2c, c, ServerDataFrameSeq(id, srvSock[c][id].seq + 1,
                                              SubSeq(srvSock[c][id].buf, 1, n)))
    /\ srvSock' = [srvSock EXCEPT ![c][id] = [@ EXCEPT !.buf = Drop(@, n), !.seq = @ + 1]]
    /\ UNCHANGED << poolVars, alive, fails, c2s, localVars, srvDial, srvConns, histVars >>
    /\ UNCHANGED udpVars
    /\ UNCHANGED sideVars

\* the pump's read fails on a closed socket: CLOSE:<id> is sent, the pump ends
\* and handleTCPConnection's defer forgets the socket (proxy.go:957-967, 915-921)
SrvPumpErr(c, id) ==
    /\ id \in DOMAIN srvSock[c]
    /\ srvSock[c][id].closed
    /\ s2c' = Sent(s2c, c, CloseFrame(id))
    /\ srvSock' = [srvSock EXCEPT ![c] = MapDel(@, id)]
    /\ srvConns' = [srvConns EXCEPT ![c] = @ \ {id}]
    /\ UNCHANGED << poolVars, alive, fails, c2s, localVars, srvDial, histVars >>
    /\ UNCHANGED udpVars
    /\ UNCHANGED sideVars

(***************************************************************************)
(* The UDP associations: handleSOCKS5UDPAssociate and UDPAssociation        *)
(* (socks5.go:319-578) over the pool's UDP operations (pool.go:105-193),    *)
(* and the server's UDP branches (proxy.go:683-705, 731-829).               *)
(***************************************************************************)
\* the slots SendUDPConnect's scan finds non-nil (pool.go:119-125)
NonNil == { i \in 0..(connectionNum - 1) : wsConns[i] # 0 }

\* the first of them
FirstNonNil == CHOOSE i \in NonNil : \A j \in NonNil : i <= j

\* RegisterUDP (pool.go:105-112), then the relay starts
UdpAssociate(u) ==
    /\ ~crashed
    /\ upc[u] = "idle"
    /\ upc' = [upc EXCEPT ![u] = "relay"]
    /\ udpMap' = udpMap \cup {u}
    /\ connected' = IF u \in DOMAIN connected THEN connected ELSE MapPut(connected, u, 0)
    /\ UNCHANGED << connectionNum, readers, wsConns, tcpMap, channelMap, connInfo, claimTimes,
                    boundByChannel, closeTasks, emitting, crashed >>
    /\ UNCHANGED << netVars, localVars, srvVars, histVars >>
    /\ UNCHANGED << receiving, nDgram, srvUdp, srvUdpOut >>
    /\ UNCHANGED sideVars

\* the frames in flight after SendUDPData(u, b) (pool.go:146-165)
AfterSendUDPData(q, cm, u, b) ==
    IF u \in DOMAIN cm /\ wsConns[cm[u]] # 0
    THEN Sent(q, cm[u], UdpDataFrame(u, b))
    ELSE q

\* the session has a channel whose slot is not nil: "ok && ws != nil"
\* (pool.go:148-155, 170-177)
Bound(cm, u) == u \in DOMAIN cm /\ wsConns[cm[u]] # 0

\* what SendUDPData may return: "未分配通道" for a session that is not bound,
\* else what WriteMessage returns (pool.go:155-164)
SendUDPDataErrs(cm, u) == IF Bound(cm, u) THEN WriteErrs(cm[u]) ELSE { TRUE }

\* history: what a call for session u found and returned
Returned(cm, u, e) == [bound |-> Bound(cm, u), wrote |-> Bound(cm, u), err |-> e]

\* the channels whose current connection works
Live == { c \in 0..(connectionNum - 1) : alive[c] }

\* a sendUDPData that would take every datagram for the first
NeverReceiving(u) ==
    FALSE

\* "if !assoc.receiving" fails (socks5.go:488)
AlreadyReceiving(u) ==
    receiving[u]

\* a datagram of the local application reaches sendUDPData (socks5.go:479-512):
\* the first one calls SendUDPConnect, which binds the association to the first
\* non-nil slot and writes UDP_CONNECT, and starts the goroutine that waits for
\* the answer; then, and for every later datagram, SendUDPData
UdpPacket(u, b) ==
    /\ ~crashed
    /\ upc[u] = "relay"
    /\ nDgram[u] < MaxDgram
    /\ nDgram' = [nDgram EXCEPT ![u] = @ + 1]
    /\ receiving' = [receiving EXCEPT ![u] = TRUE]
    /\ IF AlreadyReceiving(u)
       THEN /\ c2s' = AfterSendUDPData(c2s, channelMap, u, b)
            /\ \E e \in SendUDPDataErrs(channelMap, u) :
                 calls' = MapPut(calls, "SendUDPData", Returned(channelMap, u, e))
            /\ UNCHANGED << channelMap, boundByChannel, waitRes, firstBound >>
       ELSE IF NonNil = {}
            THEN /\ calls' = MapPut(calls, "SendUDPConnect",
                                    [err |-> TRUE, chosen |-> {}, live |-> Live])
                 /\ UNCHANGED << c2s, channelMap, boundByChannel, waitRes, firstBound >>
            ELSE LET ch == FirstNonNil
                     cm == MapPut(channelMap, u, ch)
                 IN  /\ channelMap' = cm
                     /\ boundByChannel' = MapPut(boundByChannel, ch, u)
                     /\ firstBound' = FirstBinding(u, ch)
                     /\ \E err \in WriteErrs(ch) :
                          LET cl == MapPut(calls, "SendUDPConnect",
                                           [err |-> err, chosen |-> {ch}, live |-> Live])
                          IN  IF err
                              THEN /\ calls' = cl
                                   /\ UNCHANGED << c2s, waitRes >>
                              ELSE /\ waitRes' = [waitRes EXCEPT ![u] = "waiting"]
                                   /\ c2s' = AfterSendUDPData(
                                                 Sent(c2s, ch, UdpConnectFrame(u, UdpTarget)), cm, u, b)
                                   /\ \E e \in SendUDPDataErrs(cm, u) :
                                        calls' = MapPut(cl, "SendUDPData", Returned(cm, u, e))
    /\ UNCHANGED << connectionNum, readers, wsConns, tcpMap, udpMap, connInfo, claimTimes, connected,
                    closeTasks, emitting, crashed >>
    /\ UNCHANGED << alive, fails, s2c >>
    /\ UNCHANGED << pc, mode, claimI, closeCalls, sockIn, appOut, nChunks >>
    /\ UNCHANGED << srvVars, nAck, nBind, nTcpEmit, nConnRecv >>
    /\ UNCHANGED << upc, srvUdp, srvUdpOut >>
    /\ UNCHANGED sideVars

\* the waiting goroutine's WaitConnected returns true (socks5.go:496-503)
UdpWaitTrue(u) ==
    /\ ~crashed
    /\ waitRes[u] = "waiting"
    /\ ChanReady(u)
    /\ connected' = [connected EXCEPT ![u] = 0]
    /\ waitRes' = [waitRes EXCEPT ![u] = "true"]
    /\ UNCHANGED << connectionNum, readers, wsConns, tcpMap, channelMap, connInfo, claimTimes,
                    boundByChannel, closeTasks, emitting, crashed >>
    /\ UNCHANGED << netVars, srvVars, histVars >>
    /\ UNCHANGED << pc, mode, claimI, closeCalls, sockIn, appOut, nChunks >>
    /\ UNCHANGED udpVars
    /\ UNCHANGED sideVars

\* it times out, and signals done
UdpWaitTimeout(u) ==
    /\ ~crashed
    /\ waitRes[u] = "waiting"
    /\ waitRes' = [waitRes EXCEPT ![u] = "false"]
    /\ UNCHANGED << poolVars, netVars, srvVars, histVars >>
    /\ UNCHANGED << pc, mode, claimI, closeCalls, sockIn, appOut, nChunks >>
    /\ UNCHANGED udpVars
    /\ UNCHANGED sideVars

\* done is signalled (the control connection closed, the relay failed, the wait
\* timed out): UDPAssociation.Close calls SendUDPClose, which writes UDP_CLOSE
\* and forgets the association when it is bound (socks5.go:558-578,
\* pool.go:168-193)
UdpClose(u) ==
    /\ ~crashed
    /\ upc[u] = "relay"
    /\ upc' = [upc EXCEPT ![u] = "closed"]
    /\ IF Bound(channelMap, u)
       THEN /\ c2s' = Sent(c2s, channelMap[u], UdpCloseFrame(u))
            /\ channelMap' = MapDel(channelMap, u)
            /\ boundByChannel' = MapDel(boundByChannel, channelMap[u])
            /\ udpMap' = udpMap \ {u}
            /\ \E e \in WriteErrs(channelMap[u]) :
                 calls' = MapPut(calls, "SendUDPClose", Returned(channelMap, u, e))
       ELSE /\ calls' = MapPut(calls, "SendUDPClose", Returned(channelMap, u, FALSE))
            /\ UNCHANGED << c2s, channelMap, boundByChannel, udpMap >>
    /\ UNCHANGED << connectionNum, readers, wsConns, tcpMap, connInfo, claimTimes, connected,
                    closeTasks, emitting, crashed >>
    /\ UNCHANGED << alive, fails, s2c >>
    /\ UNCHANGED << localVars, srvVars, nAck, nBind, nTcpEmit, firstBound, nConnRecv >>
    /\ UNCHANGED << receiving, nDgram, srvUdp, srvUdpOut >>
    /\ UNCHANGED sideVars

\* UDP_CONNECTED:<id> (pool.go:304-316): as CONNECTED
RecvUdpConnected(c) ==
    /\ ClientReads(c, "UDP_CONNECTED")
    /\ s2c' = [s2c EXCEPT ![c] = Tail(@)]
    /\ LET id == TrimPrefix(Head(s2c[c]).msg, Tag.UDP_CONNECTED)
       IN  /\ connected' = IF id \in DOMAIN connected
                           THEN [connected EXCEPT ![id] = 1]
                           ELSE connected
           /\ nConnRecv' = Count(nConnRecv, id)
    /\ UNCHANGED << connectionNum, readers, wsConns, tcpMap, channelMap, connInfo, claimTimes,
                    boundByChannel, closeTasks, emitting, crashed >>
    /\ UNCHANGED << alive, fails, c2s >>
    /\ UNCHANGED << localVars, srvVars, nAck, nBind, nTcpEmit, firstBound, calls >>
    /\ UNCHANGED udpVars
    /\ UNCHANGED sideVars

\* UDP_ERROR:<id>|<reason> is logged (pool.go:319-327)
RecvUdpError(c) ==
    /\ ClientReads(c, "UDP_ERROR")
    /\ s2c' = [s2c EXCEPT ![c] = Tail(@)]
    /\ UNCHANGED << poolVars, alive, fails, c2s, localVars, srvVars, histVars, udpVars >>
    /\ UNCHANGED sideVars

\* UDP_CONNECT:<id>|<target> (proxy.go:731-815): the target resolves and a
\* socket is created, stored, and UDP_CONNECTED:<id> is sent; or UDP_ERROR is
SrvUdpConnect(c, ok) ==
    /\ ServerReads(c, "UDP_CONNECT")
    /\ c2s' = [c2s EXCEPT ![c] = Tail(@)]
    /\ LET parts == SplitN(Drop(Head(c2s[c]).msg, 12), Bar, 2)
       IN  IF Len(parts) = 2
           THEN IF ok
                THEN /\ srvUdp' = [srvUdp EXCEPT ![c] = @ \cup {parts[1]}]
                     /\ s2c' = Sent(s2c, c, UdpConnectedFrame(parts[1]))
                ELSE /\ srvUdp' = srvUdp
                     /\ s2c' = Sent(s2c, c, UdpErrorFrame(parts[1]))
           ELSE UNCHANGED << srvUdp, s2c >>
    /\ UNCHANGED << poolVars, alive, fails, localVars, srvVars, histVars >>
    /\ UNCHANGED << udpMap, upc, receiving, nDgram, srvUdpOut >>
    /\ UNCHANGED sideVars

\* Binary UDP_DATA:<id>|<data>: the data is sent to the target of id
\* (proxy.go:683-705)
SrvUdpData(c) ==
    /\ ServerReads(c, "UDP_DATA")
    /\ c2s' = [c2s EXCEPT ![c] = Tail(@)]
    /\ LET parts == SplitN(Drop(Head(c2s[c]).msg, 9), Bar, 2)
       IN  srvUdpOut' = IF Len(parts) = 2 /\ parts[1] \in srvUdp[c]
                        THEN [srvUdpOut EXCEPT ![c] = Append(@, parts[2])]
                        ELSE srvUdpOut
    /\ UNCHANGED << poolVars, alive, fails, s2c, localVars, srvVars, histVars >>
    /\ UNCHANGED << udpMap, upc, receiving, nDgram, srvUdp >>
    /\ UNCHANGED sideVars

\* UDP_CLOSE:<id>: the socket of id is closed and forgotten (proxy.go:818-829)
SrvUdpClose(c) ==
    /\ ServerReads(c, "UDP_CLOSE")
    /\ c2s' = [c2s EXCEPT ![c] = Tail(@)]
    /\ srvUdp' = [srvUdp EXCEPT ![c] = @ \ {TrimPrefix(Head(c2s[c]).msg, Tag.UDP_CLOSE)}]
    /\ UNCHANGED << poolVars, alive, fails, s2c, localVars, srvVars, histVars >>
    /\ UNCHANGED << udpMap, upc, receiving, nDgram, srvUdpOut >>
    /\ UNCHANGED sideVars

\* A run serves one local connection: a TCP one (forwarded, or a SOCKS5
\* CONNECT) or a SOCKS5 UDP association.
NoneAccepted ==
    /\ \A id \in TcpIds : pc[id] = "idle"
    /\ \A u \in UdpIds : upc[u] = "idle"

(***************************************************************************)
(* The writers of a channel. Every call of WriteMessage in the client and   *)
(* in the server is a site; a goroutine at a site takes the mutex the code  *)
(* takes there, writes, and releases it. The client has one mutex per       *)
(* channel (wsMutexes[i]) whatever the connection; the server has one per   *)
(* connection (mu of handleWebSocket).                                      *)
(***************************************************************************)
\* pool.go:96, 139, 161, 182, 215, 225, 359, 433, 451
ClientSites ==
    { "CLAIM", "UDP_CONNECT", "UDP_DATA", "UDP_CLOSE", "pong", "ping", "TCP", "DATA", "CLOSE" }

\* proxy.go:669, 742-752, 802, 811, 838, 904, 928, 936, 965, 971
ServerSites ==
    { "S_pong", "S_UDP_ERROR", "S_UDP_DATA", "S_UDP_CONNECTED", "S_CLAIM_ACK",
      "S_CLOSE_dial", "S_CLOSE_first", "S_CONNECTED", "S_CLOSE_pump", "S_DATA" }

Writers ==
    [side : { "client" }, site : ClientSites] \cup [side : { "server" }, site : ServerSites]

\* the connections a channel may have had
Gens == 1..(MaxFail + 1)

\* the mutex a writer takes for a write on connection g of the channel
WMutex(w, g) == IF w.side = "client" THEN << "wsMutexes", 0 >> ELSE << "mu", g >>

Mutexes == { << "wsMutexes", 0 >> } \cup { << "mu", g >> : g \in Gens }

\* a ping ticker that would write without the mutex
LocksAroundButPing(w) ==
    w.site # "ping"

\* the sites whose WriteMessage stands between Lock and Unlock of the mutex
LocksAround(w) ==
    \/ w.side = "client" /\ w.site \in { "CLAIM", "UDP_CONNECT", "UDP_DATA", "UDP_CLOSE",
                                         "pong", "ping", "TCP", "DATA", "CLOSE" }
    \/ w.side = "server" /\ w.site \in { "S_pong", "S_UDP_ERROR", "S_UDP_DATA",
                                         "S_UDP_CONNECTED", "S_CLAIM_ACK", "S_CLOSE_dial",
                                         "S_CLOSE_first", "S_CONNECTED", "S_CLOSE_pump",
                                         "S_DATA" }

InitLock ==
    /\ lgen = 1
    /\ wpc = [w \in Writers |-> "idle"]
    /\ wws = EmptyMap
    /\ holder = [m \in Mutexes |-> {}]

\* a goroutine reaches a site holding connection g (the current one, or an
\* older one it took before a reconnection) and passes Lock
WLock(w, g) ==
    /\ wpc[w] = "idle"
    /\ g \in 1..lgen
    /\ IF LocksAround(w)
       THEN /\ holder[WMutex(w, g)] = {}
            /\ holder' = [holder EXCEPT ![WMutex(w, g)] = {w}]
       ELSE holder' = holder
    /\ wpc' = [wpc EXCEPT ![w] = "locked"]
    /\ wws' = MapPut(wws, w, g)
    /\ UNCHANGED << mainVars, openVars, echVars, authVars, hwVars, assocVars, moreVars, lgen >>

\* WriteMessage starts
WBegin(w) ==
    /\ wpc[w] = "locked"
    /\ wpc' = [wpc EXCEPT ![w] = "writing"]
    /\ UNCHANGED << mainVars, openVars, echVars, authVars, hwVars, assocVars, moreVars, lgen, wws, holder >>

\* WriteMessage returns, and Unlock
WEnd(w) ==
    /\ wpc[w] = "writing"
    /\ wpc' = [wpc EXCEPT ![w] = "idle"]
    /\ wws' = MapDel(wws, w)
    /\ holder' = IF LocksAround(w)
                 THEN [holder EXCEPT ![WMutex(w, wws[w])] = {}]
                 ELSE holder
    /\ UNCHANGED << mainVars, openVars, echVars, authVars, hwVars, assocVars, moreVars, lgen >>

\* the channel reconnects: redialChannel stores a new connection, the server
\* runs a new handleWebSocket; goroutines of the old connection may linger
WReconnect ==
    /\ lgen < MaxFail + 1
    /\ lgen' = lgen + 1
    /\ UNCHANGED << mainVars, openVars, echVars, authVars, hwVars, assocVars, moreVars, wpc, wws, holder >>

NextLock ==
    \/ \E w \in Writers, g \in Gens : WLock(w, g)
    \/ \E w \in Writers : WBegin(w)
    \/ \E w \in Writers : WEnd(w)
    \/ WReconnect

(***************************************************************************)
(* A peer that is not this server: it may send CONNECTED and UDP_CONNECTED  *)
(* frames whenever it likes, however many times.                            *)
(***************************************************************************)
PeerFrames ==
    { ConnectedFrame(id) : id \in TcpIds } \cup { UdpConnectedFrame(u) : u \in UdpIds }

InitOpen == nInject = 0

PeerSends(c, f) ==
    /\ alive[c]
    /\ nInject < MaxInject
    /\ nInject' = nInject + 1
    /\ s2c' = [s2c EXCEPT ![c] = Append(@, f)]
    /\ UNCHANGED << poolVars, alive, fails, c2s, localVars, srvVars, histVars, udpVars >>
    /\ UNCHANGED << lockVars, echVars, authVars, hwVars, assocVars, moreVars >>

\* the peer reads what the client sent
PeerReads(c) ==
    /\ c2s[c] # << >>
    /\ c2s' = [c2s EXCEPT ![c] = Tail(@)]
    /\ UNCHANGED << poolVars, alive, fails, s2c, localVars, srvVars, histVars, udpVars, sideVars >>

\* "ERROR:<text>", here with the id of a session as its text
ErrorFrame(id) == Frame(Text, Tag.ERROR \o id)

\* ERROR:<text> is logged (pool.go:386-387)
RecvError(c) ==
    /\ ClientReads(c, "ERROR")
    /\ s2c' = [s2c EXCEPT ![c] = Tail(@)]
    /\ UNCHANGED << poolVars, alive, fails, c2s, localVars, srvVars, histVars, udpVars >>
    /\ UNCHANGED sideVars

NextOpen ==
    \/ \E c \in Chans : DialOnce(c)
    \/ \E c \in Chans : RedialChannel(c)
    \/ \E c \in Chans : TransportFail(c)
    \/ \E id \in TcpIds, m \in {"tcp", "socks5"} : NoneAccepted /\ Accept(id, m, << >>)
    \/ \E id \in TcpIds : ClaimStep(id)
    \/ \E id \in TcpIds : WaitTrue(id)
    \/ \E id \in TcpIds : WaitTimeout(id)
    \/ \E id \in TcpIds : PumpReadErr(id)
    \/ \E u \in UdpIds : NoneAccepted /\ UdpAssociate(u)
    \/ \E u \in UdpIds, b \in Payloads : UdpPacket(u, b)
    \/ \E u \in UdpIds : UdpWaitTrue(u)
    \/ \E u \in UdpIds : UdpWaitTimeout(u)
    \/ \E u \in UdpIds : UdpClose(u)
    \/ \E c \in Chans : RecvConnected(c)
    \/ \E c \in Chans : RecvUdpConnected(c)
    \/ \E c \in Chans, f \in PeerFrames : PeerSends(c, f)
    \/ \E c \in Chans : PeerReads(c)

(***************************************************************************)
(* The ECH dial: prepareECH / refreshECH / getECHList (ech.go) and          *)
(* dialWebSocketWithECH under dialOnce and redialChannel (tcp_client.go,    *)
(* pool.go). An ECH config is one symbol; the server honours one at a time. *)
(***************************************************************************)
Keys == { "k1", "k2" }

\* what queryHTTPSRecord may return: an error, no ech parameter, the base64
\* of a config list
DoHResults ==
    { [err |-> TRUE, b64 |-> << >>], [err |-> FALSE, b64 |-> << >>] }
        \cup { [err |-> FALSE, b64 |-> << "b", k >>] : k \in Keys }

\* base64.StdEncoding.DecodeString
Base64Decode(b64) ==
    IF Len(b64) = 2 /\ b64[1] = "b"
    THEN [err |-> FALSE, raw |-> << b64[2] >>]
    ELSE [err |-> TRUE, raw |-> << >>]

\* one round of prepareECH's loop ends it (ech.go:32-53)
Usable(r) == ~r.err /\ r.b64 # << >> /\ ~Base64Decode(r.b64).err

\* getECHList (ech.go:64-71)
GetECHList == [err |-> Len(echList) = 0, list |-> echList]

\* a TLS configuration that would carry no ECH config list
NoEchConfig(list) ==
    << >>

\* EncryptedClientHelloConfigList of buildTLSConfigWithECH (tcp_client.go:29)
EchConfigOf(list) ==
    list

\* how dialer.Dial may end with that list in the TLS configuration: without a
\* list the handshake is a plain one; with one, the server honours it or the
\* handshake fails (EncryptedClientHelloRejectionVerify returns an error)
Handshake(list) ==
    IF list = << >> THEN { "plain", "net" }
    ELSE IF \E i \in 1..Len(list) : list[i] = srvKey THEN { "ech", "net" }
    ELSE { "rejected", "net" }

InitEch ==
    /\ echList = << >>
    /\ srvKey = "k1"
    /\ mainPc = "prepare"
    /\ dpc = [d \in Chans |-> "dial"]
    /\ attempt = [d \in Chans |-> 1]
    /\ hs = [d \in Chans |-> [offered |-> << >>, honoured |-> FALSE]]
    /\ offered = {}
    /\ nEnv = 0

\* main: prepareECH before the pool starts (proxy.go:181-191)
MainPrepare(r) ==
    /\ mainPc = "prepare"
    /\ IF Usable(r)
       THEN /\ echList' = Base64Decode(r.b64).raw
            /\ mainPc' = "started"
       ELSE UNCHANGED << echList, mainPc >>
    /\ UNCHANGED << mainVars, lockVars, openVars, authVars, hwVars, assocVars, moreVars >>
    /\ UNCHANGED << srvKey, dpc, attempt, hs, offered, nEnv >>

\* one round of dialWebSocketWithECH's loop (tcp_client.go:165-229); when it
\* returns an error, dialOnce or redialChannel sleeps and calls it again
EchAttempt(d) ==
    /\ mainPc = "started"
    /\ dpc[d] = "dial"
    /\ LET ech == GetECHList
           retry == attempt[d] < MaxRetries
       IN  IF ech.err
           THEN /\ dpc' = [dpc EXCEPT ![d] = IF retry THEN "refresh" ELSE "dial"]
                /\ attempt' = [attempt EXCEPT ![d] = IF retry THEN @ ELSE 1]
                /\ UNCHANGED << hs, offered >>
           ELSE /\ offered' = offered \cup { EchConfigOf(ech.list) }
                /\ \E out \in Handshake(EchConfigOf(ech.list)) :
                     CASE out \in { "ech", "plain" } ->
                            /\ dpc' = [dpc EXCEPT ![d] = "running"]
                            /\ hs' = [hs EXCEPT ![d] = [offered |-> EchConfigOf(ech.list),
                                                        honoured |-> out = "ech"]]
                            /\ attempt' = attempt
                       [] out = "rejected" ->
                            /\ dpc' = [dpc EXCEPT ![d] = IF retry THEN "refresh" ELSE "dial"]
                            /\ attempt' = [attempt EXCEPT ![d] = IF retry THEN @ ELSE 1]
                            /\ hs' = hs
                       [] out = "net" ->
                            /\ attempt' = [attempt EXCEPT ![d] = 1]
                            /\ UNCHANGED << dpc, hs >>
    /\ UNCHANGED << mainVars, lockVars, openVars, authVars, hwVars, assocVars, moreVars >>
    /\ UNCHANGED << echList, srvKey, mainPc, nEnv >>

\* refreshECH: prepareECH again, then the loop's next round
\* (tcp_client.go:171-174, 218-222)
EchRefresh(d, r) ==
    /\ dpc[d] = "refresh"
    /\ IF Usable(r)
       THEN /\ echList' = Base64Decode(r.b64).raw
            /\ dpc' = [dpc EXCEPT ![d] = "dial"]
            /\ attempt' = [attempt EXCEPT ![d] = @ + 1]
       ELSE UNCHANGED << echList, dpc, attempt >>
    /\ UNCHANGED << mainVars, lockVars, openVars, authVars, hwVars, assocVars, moreVars >>
    /\ UNCHANGED << srvKey, mainPc, hs, offered, nEnv >>

\* the connection is lost: handleChannel calls redialChannel (pool.go:232-236)
EchDrop(d) ==
    /\ dpc[d] = "running"
    /\ nEnv < MaxFail
    /\ nEnv' = nEnv + 1
    /\ dpc' = [dpc EXCEPT ![d] = "dial"]
    /\ attempt' = [attempt EXCEPT ![d] = 1]
    /\ hs' = [hs EXCEPT ![d] = [offered |-> << >>, honoured |-> FALSE]]
    /\ UNCHANGED << mainVars, lockVars, openVars, authVars, hwVars, assocVars, moreVars >>
    /\ UNCHANGED << echList, srvKey, mainPc, offered >>

\* the server's ECH key is rotated
SrvRotate(k) ==
    /\ nEnv < MaxFail
    /\ k # srvKey
    /\ nEnv' = nEnv + 1
    /\ srvKey' = k
    /\ UNCHANGED << mainVars, lockVars, openVars, authVars, hwVars, assocVars, moreVars >>
    /\ UNCHANGED << echList, mainPc, dpc, attempt, hs, offered >>

NextEch ==
    \/ \E r \in DoHResults : MainPrepare(r)
    \/ \E d \in Chans : EchAttempt(d)
    \/ \E d \in Chans, r \in DoHResults : EchRefresh(d, r)
    \/ \E d \in Chans : EchDrop(d)
    \/ \E k \in Keys : SrvRotate(k)

(***************************************************************************)
(* The server's HTTP handler (runWebSocketServer, proxy.go:549-592). An IP  *)
(* address is a sequence of AddrBits bits and a network is a prefix.        *)
(***************************************************************************)
IPs == [1..AddrBits -> {0, 1}]
Nets == { << >>, << 1 >>, << 0, 1 >> }
Tokens == { << >>, << "t" >> }
Protos == { << >>, << "t" >>, << "x" >> }

\* net.IPNet.Contains
Contains(n, ip) == SubSeq(ip, 1, Len(n)) = n

\* a handler without the token check
TokenNotChecked(proto) ==
    TRUE

\* the token check (proxy.go:573-582)
TokenAccepted(proto) ==
    token = << >> \/ proto = token

\* main's flag defaults: -token "", -cidr 0.0.0.0/0,::/0 (proxy.go:164-165)
InitAuth ==
    /\ token = << >>
    /\ allowedNets = { << >> }
    /\ alog = << >>

\* any configuration of the two flags
InitAuthAny ==
    /\ token \in Tokens
    /\ allowedNets \in (SUBSET Nets) \ { {} }
    /\ alog = << >>

\* the handler, for a request from ip offering subprotocol proto; upOk is
\* whether upgrader.Upgrade succeeds
HandleUpgrade(ip, proto, upOk) ==
    /\ Len(alog) < MaxReq
    /\ LET allowed == \E n \in allowedNets : Contains(n, ip)
           status == IF ~allowed THEN 403
                     ELSE IF ~TokenAccepted(proto) THEN 401
                     ELSE IF upOk THEN 101 ELSE 400
       IN  alog' = Append(alog, [ip |-> ip, proto |-> proto, status |-> status,
                                 ws |-> status = 101])
    /\ UNCHANGED << mainVars, lockVars, openVars, echVars, hwVars, assocVars, moreVars >>
    /\ UNCHANGED << token, allowedNets >>

NextAuth ==
    \E ip \in IPs, proto \in Protos, upOk \in BOOLEAN : HandleUpgrade(ip, proto, upOk)

(***************************************************************************)
(* One handleWebSocket of the server in detail (proxy.go:624-889), with the *)
(* handleTCPConnection goroutine of each TCP frame (proxy.go:892-985) and   *)
(* the goroutine of each UDP socket (proxy.go:763-805). Its client sends    *)
(* TCP and UDP_CONNECT once per id, and anything else at any time.          *)
(***************************************************************************)
\* the frames the client may send
WsFrames ==
    { TcpFrame(id, Target, first) : id \in TcpIds, first \in FirstFrames }
        \cup { ClientDataFrame(id, << "x" >>) : id \in TcpIds }
        \cup { CloseFrame(id) : id \in TcpIds }
        \cup { UdpConnectFrame(u, UdpTarget) : u \in UdpIds }
        \cup { UdpCloseFrame(u) : u \in UdpIds }

\* the id a frame of the client is for
WsIdOf(f) ==
    LET k == ServerKind(f)
    IN  IF k = "TCP" THEN SplitN(Drop(f.msg, 4), Bar, 3)[1]
        ELSE IF k = "DATA" THEN SplitN(Drop(f.msg, 5), Bar, 2)[1]
        ELSE IF k = "CLOSE" THEN TrimPrefix(f.msg, Tag.CLOSE)
        ELSE IF k = "UDP_CONNECT" THEN SplitN(Drop(f.msg, 12), Bar, 2)[1]
        ELSE TrimPrefix(f.msg, Tag.UDP_CLOSE)

\* the client has already sent the frame that opens id
Opened(id) ==
    \/ id \in DOMAIN tcpGo \cup DOMAIN udpConns
    \/ \E k \in 1..Len(inbox) :
         ServerKind(inbox[k]) \in { "TCP", "UDP_CONNECT" } /\ WsIdOf(inbox[k]) = id

\* wsConn.WriteMessage(frame): the frame leaves unless the WebSocket is closed
WsWrite(q, frames) == IF wsOpen THEN q \o frames ELSE q

\* a Write on the origin socket fails: it was closed, or the origin reset it
WriteFails(sock) == ~sock.open \/ sock.reset

InitWs ==
    /\ wsOpen = TRUE
    /\ inbox = << >>
    /\ nIn = 0
    /\ conns = {}
    /\ tcpGo = EmptyMap
    /\ origin = EmptyMap
    /\ wsOut = << >>
    /\ udpConns = EmptyMap

\* a frame of the client arrives
WsArrives(f) ==
    /\ wsOpen
    /\ nIn < MaxSrvIn
    /\ ServerKind(f) \in { "TCP", "UDP_CONNECT" } => ~Opened(WsIdOf(f))
    /\ nIn' = nIn + 1
    /\ inbox' = Append(inbox, f)
    /\ UNCHANGED << wsOpen, conns, tcpGo, origin, wsOut, udpConns >>
    /\ UNCHANGED << mainVars, lockVars, openVars, echVars, authVars, assocVars, moreVars >>

\* ReadMessage returns the next frame, of the given branch
WsReads(kind) ==
    /\ wsOpen
    /\ inbox # << >>
    /\ ServerKind(Head(inbox)) = kind
    /\ inbox' = Tail(inbox)

\* TCP:<id>|<target>|<first>: go handleTCPConnection (proxy.go:845-860)
WsTcp ==
    /\ WsReads("TCP")
    /\ LET parts == SplitN(Drop(Head(inbox).msg, 4), Bar, 3)
       IN  tcpGo' = MapPut(tcpGo, parts[1],
                           [pc |-> "dial", late |-> FALSE,
                            first |-> IF Len(parts) = 3 THEN parts[3] ELSE << >>])
    /\ UNCHANGED << wsOpen, nIn, conns, origin, wsOut, udpConns >>
    /\ UNCHANGED << mainVars, lockVars, openVars, echVars, authVars, assocVars, moreVars >>

\* DATA:<id>|<payload>, Text or Binary: the payload is written to the origin
\* socket of id; a failed write is logged (proxy.go:708-724, 861-875)
WsData ==
    /\ WsReads("DATA")
    /\ LET parts == SplitN(Drop(Head(inbox).msg, 5), Bar, 2)
           id == parts[1]
       IN  origin' = IF Len(parts) = 2 /\ id \in conns
                     THEN IF WriteFails(origin[id])
                          THEN [origin EXCEPT ![id].wfail = TRUE]
                          ELSE [origin EXCEPT ![id].got = @ \o parts[2]]
                     ELSE origin
    /\ UNCHANGED << wsOpen, nIn, conns, tcpGo, wsOut, udpConns >>
    /\ UNCHANGED << mainVars, lockVars, openVars, echVars, authVars, assocVars, moreVars >>

\* CLOSE:<id>: the origin socket of id is closed and forgotten (proxy.go:876-887)
WsClose ==
    /\ WsReads("CLOSE")
    /\ LET id == TrimPrefix(Head(inbox).msg, Tag.CLOSE)
       IN  /\ origin' = IF id \in conns THEN [origin EXCEPT ![id].open = FALSE] ELSE origin
           /\ conns' = conns \ {id}
    /\ UNCHANGED << wsOpen, nIn, tcpGo, wsOut, udpConns >>
    /\ UNCHANGED << mainVars, lockVars, openVars, echVars, authVars, assocVars, moreVars >>

\* UDP_CONNECT:<id>|<target>: a socket is created and stored, its goroutine
\* started and UDP_CONNECTED sent; or UDP_ERROR is (proxy.go:731-815)
WsUdpConnect(ok) ==
    /\ WsReads("UDP_CONNECT")
    /\ LET id == SplitN(Drop(Head(inbox).msg, 12), Bar, 2)[1]
       IN  IF ok
           THEN /\ udpConns' = MapPut(udpConns, id, [open |-> TRUE, pump |-> TRUE])
                /\ wsOut' = WsWrite(wsOut, << UdpConnectedFrame(id) >>)
           ELSE /\ udpConns' = udpConns
                /\ wsOut' = WsWrite(wsOut, << UdpErrorFrame(id) >>)
    /\ UNCHANGED << wsOpen, nIn, conns, tcpGo, origin >>
    /\ UNCHANGED << mainVars, lockVars, openVars, echVars, authVars, assocVars, moreVars >>

\* UDP_CLOSE:<id>: the socket of id is closed and forgotten (proxy.go:818-829)
WsUdpClose ==
    /\ WsReads("UDP_CLOSE")
    /\ LET id == TrimPrefix(Head(inbox).msg, Tag.UDP_CLOSE)
       IN  udpConns' = IF id \in DOMAIN udpConns
                       THEN [udpConns EXCEPT ![id].open = FALSE]
                       ELSE udpConns
    /\ UNCHANGED << wsOpen, nIn, conns, tcpGo, origin, wsOut >>
    /\ UNCHANGED << mainVars, lockVars, openVars, echVars, authVars, assocVars, moreVars >>

\* ReadMessage fails and the deferred cleanup runs (proxy.go:673-679, 637-663):
\* the context is cancelled, every socket in conns and udpConns is closed, the
\* maps are replaced by empty ones, the WebSocket is closed
WsExit ==
    /\ wsOpen
    /\ wsOpen' = FALSE
    /\ inbox' = << >>
    /\ origin' = [id \in DOMAIN origin |->
                    IF id \in conns THEN [origin[id] EXCEPT !.open = FALSE] ELSE origin[id]]
    /\ conns' = {}
    /\ udpConns' = [id \in DOMAIN udpConns |-> [udpConns[id] EXCEPT !.open = FALSE]]
    /\ UNCHANGED << nIn, tcpGo, wsOut >>
    /\ UNCHANGED << mainVars, lockVars, openVars, echVars, authVars, assocVars, moreVars >>

\* a dial reply that would announce a connection that was not made
DialRepliesConnected(id, ok) ==
    IF ok THEN << >> ELSE << ConnectedFrame(id) >>

\* what handleTCPConnection writes when net.Dial returns (proxy.go:900-907)
DialReplies(id, ok) ==
    IF ok THEN << >> ELSE << CloseFrame(id) >>

\* net.Dial returns: on an error CLOSE:<id> is written and the goroutine ends;
\* else the socket is stored in conns (proxy.go:900-912)
TcpDial(id, ok) ==
    /\ id \in DOMAIN tcpGo
    /\ tcpGo[id].pc = "dial"
    /\ tcpGo' = [tcpGo EXCEPT ![id].pc = IF ok THEN "stored" ELSE "failed",
                              ![id].late = ~wsOpen]
    /\ wsOut' = WsWrite(wsOut, DialReplies(id, ok))
    /\ IF ok
       THEN /\ conns' = conns \cup {id}
            /\ origin' = MapPut(origin, id, [open |-> TRUE, reset |-> FALSE, got |-> << >>,
                                             wfail |-> FALSE, nout |-> 0])
       ELSE UNCHANGED << conns, origin >>
    /\ UNCHANGED << wsOpen, inbox, nIn, udpConns >>
    /\ UNCHANGED << mainVars, lockVars, openVars, echVars, authVars, assocVars, moreVars >>

\* the first frame is written to the origin: if that fails CLOSE:<id> is
\* written and the deferred exit closes and forgets the socket; else
\* CONNECTED:<id> is written and the read pump starts (proxy.go:923-941)
TcpFirstFrame(id) ==
    /\ id \in DOMAIN tcpGo
    /\ tcpGo[id].pc = "stored"
    /\ IF tcpGo[id].first # << >> /\ WriteFails(origin[id])
       THEN /\ tcpGo' = [tcpGo EXCEPT ![id].pc = "exit"]
            /\ wsOut' = WsWrite(wsOut, << CloseFrame(id) >>)
            /\ origin' = [origin EXCEPT ![id].open = FALSE]
            /\ conns' = conns \ {id}
       ELSE /\ tcpGo' = [tcpGo EXCEPT ![id].pc = "pump"]
            /\ wsOut' = WsWrite(wsOut, << ConnectedFrame(id) >>)
            /\ origin' = [origin EXCEPT ![id].got = @ \o tcpGo[id].first]
            /\ conns' = conns
    /\ UNCHANGED << wsOpen, inbox, nIn, udpConns >>
    /\ UNCHANGED << mainVars, lockVars, openVars, echVars, authVars, assocVars, moreVars >>

\* the read pump reads bytes of the origin and writes them as a Binary DATA
\* frame (proxy.go:955-972)
TcpPumpData(id, b) ==
    /\ id \in DOMAIN tcpGo
    /\ tcpGo[id].pc = "pump"
    /\ wsOpen
    /\ ~WriteFails(origin[id])
    /\ origin[id].nout < MaxChunks
    /\ origin' = [origin EXCEPT ![id].nout = @ + 1]
    /\ wsOut' = WsWrite(wsOut, << ServerDataFrame(id, b) >>)
    /\ UNCHANGED << wsOpen, inbox, nIn, conns, tcpGo, udpConns >>
    /\ UNCHANGED << mainVars, lockVars, openVars, echVars, authVars, assocVars, moreVars >>

\* a pump that would not look at the context
PumpNeverSeesCancel ==
    FALSE

\* "case <-ctx.Done()" of the pumps' select (proxy.go:775, 946), or a write to
\* the closed WebSocket fails (proxy.go:974-979)
PumpSeesCancel ==
    ~wsOpen

\* the pump ends: the context is cancelled, or its Read fails and it writes
\* CLOSE:<id>; the socket is closed and handleTCPConnection's deferred exit
\* forgets it (proxy.go:945-968, 915-921)
TcpPumpEnds(id) ==
    /\ id \in DOMAIN tcpGo
    /\ tcpGo[id].pc = "pump"
    /\ PumpSeesCancel \/ WriteFails(origin[id])
    /\ tcpGo' = [tcpGo EXCEPT ![id].pc = "exit"]
    /\ wsOut' = WsWrite(wsOut, << CloseFrame(id) >>)
    /\ origin' = [origin EXCEPT ![id].open = FALSE]
    /\ conns' = conns \ {id}
    /\ UNCHANGED << wsOpen, inbox, nIn, udpConns >>
    /\ UNCHANGED << mainVars, lockVars, openVars, echVars, authVars, assocVars, moreVars >>

\* the goroutine of a UDP socket ends: the context is cancelled or the socket
\* was closed; its deferred exit closes the socket (proxy.go:764-792)
UdpPumpEnds(id) ==
    /\ id \in DOMAIN udpConns
    /\ udpConns[id].pump
    /\ PumpSeesCancel \/ ~udpConns[id].open
    /\ udpConns' = [udpConns EXCEPT ![id] = [open |-> FALSE, pump |-> FALSE]]
    /\ UNCHANGED << wsOpen, inbox, nIn, conns, tcpGo, origin, wsOut >>
    /\ UNCHANGED << mainVars, lockVars, openVars, echVars, authVars, assocVars, moreVars >>

\* the origin resets the connection
OriginReset(id) ==
    /\ id \in DOMAIN origin
    /\ origin[id].open
    /\ ~origin[id].reset
    /\ origin' = [origin EXCEPT ![id].reset = TRUE]
    /\ UNCHANGED << wsOpen, inbox, nIn, conns, tcpGo, wsOut, udpConns >>
    /\ UNCHANGED << mainVars, lockVars, openVars, echVars, authVars, assocVars, moreVars >>

\* the goroutines started by the read loop
WsGoroutines(id) ==
    \/ \E ok \in BOOLEAN : TcpDial(id, ok)
    \/ TcpFirstFrame(id)
    \/ TcpPumpEnds(id)
    \/ UdpPumpEnds(id)

NextWs ==
    \/ \E f \in WsFrames : WsArrives(f)
    \/ WsTcp \/ WsData \/ WsClose \/ WsUdpClose
    \/ \E ok \in BOOLEAN : WsUdpConnect(ok)
    \/ WsExit
    \/ \E id \in Ids : WsGoroutines(id)
    \/ \E id \in TcpIds : TcpPumpData(id, << "y" >>)
    \/ \E id \in TcpIds : OriginReset(id)

(***************************************************************************)
(* One UDP association of the SOCKS5 proxy in detail (socks5.go:319-578)    *)
(* and the read loop of its channel (pool.go:239-256). Five goroutines:     *)
(* main (handleSOCKS5UDPAssociate), ctl (the reader of the control          *)
(* connection), relay (handleUDPRelay), waiter (WaitConnected) and loop     *)
(* (handleChannel, which calls handleUDPResponse).                          *)
(***************************************************************************)
\* make(chan bool, 2)
DoneCap == 2

\* the source addresses datagrams come from
UdpSrcs == { 1, 2 }

\* a relay that would take datagrams of any source
LatchAcceptsAny(latch, src) ==
    TRUE

\* assoc.clientUDPAddr.String() == srcAddr.String() (socks5.go:447)
LatchAccepts(latch, src) ==
    latch = src

\* the state of a goroutine after its "assoc.done <- true"
AfterSend(g) == IF g = "loop" THEN "idle" ELSE "exited"

\* goroutines blocked in "assoc.done <- true"
Blocked == { g \in DOMAIN apc : apc[g] = "blocked" }

InitAssoc ==
    /\ apc = [main |-> "waiting", ctl |-> "reading", relay |-> "reading",
              waiter |-> "none", loop |-> "idle"]
    /\ done = 0
    /\ assoc = [closed |-> FALSE, receiving |-> FALSE, listener |-> TRUE,
                bound |-> FALSE, registered |-> TRUE]
    /\ clientUDPAddr = 0
    /\ buffer = [src |-> 0, n |-> 0]
    /\ handlers = 0
    /\ recvd = << >>
    /\ assocOut = << >>
    /\ nLoop = 0

\* goroutine g executes "assoc.done <- true": the value is buffered, or the
\* goroutine blocks when the buffer is full
SendDone(g) ==
    IF done < DoneCap
    THEN /\ done' = done + 1
         /\ apc' = [apc EXCEPT ![g] = AfterSend(g)]
    ELSE /\ done' = done
         /\ apc' = [apc EXCEPT ![g] = "blocked"]

\* ReadFromUDP returns a datagram of source src: the first one latches
\* clientUDPAddr; one of another source is logged and skipped; the others get
\* a handleUDPPacket goroutine on the relay's buffer (socks5.go:428-456)
RelayReads(src) ==
    /\ apc.relay = "reading"
    /\ assoc.listener
    /\ Len(recvd) < MaxDgram
    /\ recvd' = Append(recvd, src)
    /\ buffer' = [src |-> src, n |-> Len(recvd) + 1]
    /\ IF clientUDPAddr = 0
       THEN /\ clientUDPAddr' = src
            /\ handlers' = handlers + 1
       ELSE /\ clientUDPAddr' = clientUDPAddr
            /\ handlers' = IF LatchAccepts(clientUDPAddr, src) THEN handlers + 1 ELSE handlers
    /\ UNCHANGED << apc, done, assoc, assocOut, nLoop >>
    /\ UNCHANGED << mainVars, lockVars, openVars, echVars, authVars, hwVars, moreVars >>

\* ReadFromUDP returns an error (the listener was closed, or the socket
\* failed): "assoc.done <- true" and return (socks5.go:429-435)
RelayFails ==
    /\ apc.relay = "reading"
    /\ SendDone("relay")
    /\ UNCHANGED << assoc, clientUDPAddr, buffer, handlers, recvd, assocOut, nLoop >>
    /\ UNCHANGED << mainVars, lockVars, openVars, echVars, authVars, hwVars, moreVars >>

\* a handleUDPPacket goroutine whose sendUDPData does not set the flag
HandleUDPPacketUnflagged(ok) ==
    /\ handlers > 0
    /\ handlers' = handlers - 1
    /\ LET frame(kind) == [kind |-> kind, src |-> buffer.src, n |-> buffer.n]
       IN  IF assoc.closed
           THEN UNCHANGED << assoc, assocOut, apc >>
           ELSE IF ~assoc.receiving
           THEN IF ok
                THEN /\ assoc' = [assoc EXCEPT !.bound = TRUE]
                     /\ assocOut' = assocOut \o << frame("UDP_CONNECT"), frame("UDP_DATA") >>
                     /\ apc' = [apc EXCEPT !.waiter = "waiting"]
                ELSE UNCHANGED << assoc, assocOut, apc >>
           ELSE /\ assocOut' = IF assoc.bound THEN Append(assocOut, frame("UDP_DATA"))
                               ELSE assocOut
                /\ UNCHANGED << assoc, apc >>
    /\ UNCHANGED << done, clientUDPAddr, buffer, recvd, nLoop >>
    /\ UNCHANGED << mainVars, lockVars, openVars, echVars, authVars, hwVars, moreVars >>

\* a handleUDPPacket goroutine runs: it parses what is in the buffer now and
\* calls sendUDPData, which sends UDP_CONNECT the first time (ok: a channel
\* is live) and starts the waiter, then UDP_DATA (socks5.go:461-512)
HandleUDPPacket(ok) ==
    /\ handlers > 0
    /\ handlers' = handlers - 1
    /\ LET frame(kind) == [kind |-> kind, src |-> buffer.src, n |-> buffer.n]
       IN  IF assoc.closed
           THEN UNCHANGED << assoc, assocOut, apc >>
           ELSE IF ~assoc.receiving
           THEN IF ok
                THEN /\ assoc' = [assoc EXCEPT !.receiving = TRUE, !.bound = TRUE]
                     /\ assocOut' = assocOut \o << frame("UDP_CONNECT"), frame("UDP_DATA") >>
                     /\ apc' = [apc EXCEPT !.waiter = "waiting"]
                ELSE /\ assoc' = [assoc EXCEPT !.receiving = TRUE]
                     /\ UNCHANGED << assocOut, apc >>
           ELSE /\ assocOut' = IF assoc.bound THEN Append(assocOut, frame("UDP_DATA"))
                               ELSE assocOut
                /\ UNCHANGED << assoc, apc >>
    /\ UNCHANGED << done, clientUDPAddr, buffer, recvd, nLoop >>
    /\ UNCHANGED << mainVars, lockVars, openVars, echVars, authVars, hwVars, moreVars >>

\* WaitConnected returns: true, or false after 5 s and then
\* "assoc.done <- true" (socks5.go:495-502)
WaiterEnds(inTime) ==
    /\ apc.waiter = "waiting"
    /\ IF inTime
       THEN apc' = [apc EXCEPT !.waiter = "exited"] /\ done' = done
       ELSE SendDone("waiter")
    /\ UNCHANGED << assoc, clientUDPAddr, buffer, handlers, recvd, assocOut, nLoop >>
    /\ UNCHANGED << mainVars, lockVars, openVars, echVars, authVars, hwVars, moreVars >>

\* tcpConn.Read of the control connection fails: "assoc.done <- true"
\* (socks5.go:376-386)
CtlFails ==
    /\ apc.ctl = "reading"
    /\ SendDone("ctl")
    /\ UNCHANGED << assoc, clientUDPAddr, buffer, handlers, recvd, assocOut, nLoop >>
    /\ UNCHANGED << mainVars, lockVars, openVars, echVars, authVars, hwVars, moreVars >>

\* "<-assoc.done" of the main goroutine, its only receive (socks5.go:389); a
\* blocked sender's value takes the place of the value received
MainReceives ==
    /\ apc.main = "waiting"
    /\ done > 0
    /\ IF Blocked = {}
       THEN /\ done' = done - 1
            /\ apc' = [apc EXCEPT !.main = "closing"]
       ELSE /\ done' = done
            /\ \E g \in Blocked :
                 apc' = [apc EXCEPT !.main = "closing", ![g] = AfterSend(g)]
    /\ UNCHANGED << assoc, clientUDPAddr, buffer, handlers, recvd, assocOut, nLoop >>
    /\ UNCHANGED << mainVars, lockVars, openVars, echVars, authVars, hwVars, moreVars >>

\* assoc.Close(): SendUDPClose, which forgets a bound session and sends
\* UDP_CLOSE, and udpListener.Close() (socks5.go:391, 558-578; pool.go:168-193)
MainCloses ==
    /\ apc.main = "closing"
    /\ apc' = [apc EXCEPT !.main = "returned"]
    /\ assoc' = [assoc EXCEPT !.closed = TRUE, !.listener = FALSE, !.bound = FALSE,
                              !.registered = IF assoc.bound THEN FALSE ELSE @]
    /\ assocOut' = IF assoc.bound
                   THEN Append(assocOut, [kind |-> "UDP_CLOSE", src |-> 0, n |-> 0])
                   ELSE assocOut
    /\ UNCHANGED << done, clientUDPAddr, buffer, handlers, recvd, nLoop >>
    /\ UNCHANGED << mainVars, lockVars, openVars, echVars, authVars, hwVars, moreVars >>

\* the read loop reads a frame of another session and handles it
LoopOther ==
    /\ apc.loop = "idle"
    /\ nLoop < MaxLoopIn
    /\ nLoop' = nLoop + 1
    /\ UNCHANGED << apc, done, assoc, clientUDPAddr, buffer, handlers, recvd, assocOut >>
    /\ UNCHANGED << mainVars, lockVars, openVars, echVars, authVars, hwVars, moreVars >>

\* the read loop reads a UDP_DATA frame of the association, which the server
\* sends once it has got UDP_CONNECT, and looks the id up in udpMap
\* (pool.go:241-250)
LoopLookup ==
    /\ apc.loop = "idle"
    /\ nLoop < MaxLoopIn
    /\ \E k \in 1..Len(assocOut) : assocOut[k].kind = "UDP_CONNECT"
    /\ nLoop' = nLoop + 1
    /\ apc' = IF assoc.registered THEN [apc EXCEPT !.loop = "found"] ELSE apc
    /\ UNCHANGED << done, assoc, clientUDPAddr, buffer, handlers, recvd, assocOut >>
    /\ UNCHANGED << mainVars, lockVars, openVars, echVars, authVars, hwVars, moreVars >>

\* the read loop calls assoc.handleUDPResponse: WriteToUDP to the latched
\* address, and on an error (certain once the listener is closed)
\* "assoc.done <- true" (pool.go:252-254, socks5.go:515-548)
LoopResponse(ok) ==
    /\ apc.loop = "found"
    /\ IF clientUDPAddr # 0 /\ ~(ok /\ assoc.listener)
       THEN SendDone("loop")
       ELSE apc' = [apc EXCEPT !.loop = "idle"] /\ done' = done
    /\ UNCHANGED << assoc, clientUDPAddr, buffer, handlers, recvd, assocOut, nLoop >>
    /\ UNCHANGED << mainVars, lockVars, openVars, echVars, authVars, hwVars, moreVars >>

NextAssoc ==
    \/ \E src \in UdpSrcs : RelayReads(src)
    \/ RelayFails
    \/ \E ok \in BOOLEAN : HandleUDPPacket(ok)
    \/ \E inTime \in BOOLEAN : WaiterEnds(inTime)
    \/ CtlFails
    \/ MainReceives
    \/ MainCloses
    \/ LoopOther
    \/ LoopLookup
    \/ \E ok \in BOOLEAN : LoopResponse(ok)

(***************************************************************************)
(* The way back of a UDP association: the server's receive pump             *)
(* (proxy.go:780-803), the read loop's UDP_DATA branch (pool.go:239-256)    *)
(* and handleUDPResponse (socks5.go:515-548, 652-689).                      *)
(***************************************************************************)
\* the connID of the association (socks5.go:349)
AssocId == CHOOSE u \in UdpIds : TRUE

\* the peers whose datagrams the server's UDP socket may receive: an IPv4
\* and an IPv6 literal (net.IP.String), and their ports
PeerHosts == { << "1", ".", "2" >>, << ":", ":", "1" >> }
PeerPorts == { << "5", "3" >> }

\* net.SplitHostPort(addr.String()): UDPAddr.String joins with brackets
\* around a host that has a colon, SplitHostPort takes them off again
JoinHostPort(host, port) ==
    IF Index(host, ":") # 0
    THEN << "[" >> \o host \o << "]", ":" >> \o port
    ELSE host \o << ":" >> \o port

SplitHostPort(hostport) ==
    IF Head(hostport) = "["
    THEN [host |-> SubSeq(hostport, 2, Index(hostport, "]") - 1),
          port |-> Drop(hostport, Index(hostport, "]") + 1)]
    ELSE [host |-> SubSeq(hostport, 1, Index(hostport, ":") - 1),
          port |-> Drop(hostport, Index(hostport, ":"))]

\* proxy.go:798-800  fmt.Sprintf("UDP_DATA:%s|%s:%s|", cID, host, portStr) followed by buffer[:n], Binary
UdpReplyFrame(id, hostport, data) ==
    LET hp == SplitHostPort(hostport)
    IN  Frame(Binary, Tag.UDP_DATA \o id \o << Bar >> \o hp.host \o << ":" >> \o hp.port
                      \o << Bar >> \o data)

\* strings.Split(s, sep) for a one-character sep
Split(s, sep) == SplitEvery(s, sep, 0)

RECURSIVE ScanInt(_, _)
\* fmt.Sscanf(s, "%d", &port) of an unsigned number: the leading digits, acc so far
ScanInt(s, acc) ==
    IF s # << >> /\ \E d \in 1..10 : DigitChars[d] = Head(s)
    THEN ScanInt(Tail(s), 10 * acc + (CHOOSE d \in 1..10 : DigitChars[d] = Head(s)) - 1)
    ELSE acc

\* the address type buildSOCKS5UDPPacket finds with net.ParseIP (socks5.go:659-678)
AddrType(host) ==
    IF Index(host, ":") # 0 THEN "IPv6"
    ELSE IF \A i \in 1..Len(host) : host[i] = "." \/ \E d \in 1..10 : DigitChars[d] = host[i]
         THEN "IPv4"
         ELSE "Domain"

\* buildSOCKS5UDPPacket(host, port, data) (socks5.go:652-689)
BuildSOCKS5UDPPacket(host, port, data) ==
    [atyp |-> AddrType(host), host |-> host, port |-> port, data |-> data]

InitReply ==
    /\ udpIn = << >>
    /\ replied = << >>
    /\ peerOut = << >>

\* the server's receive pump reads a datagram of a peer from the session's UDP
\* socket and sends it as a UDP_DATA frame (proxy.go:780-803)
SrvUdpReplies(host, port, data) ==
    /\ \E k \in 1..Len(assocOut) : assocOut[k].kind = "UDP_CONNECT"
    /\ Len(replied) < MaxDgram
    /\ replied' = Append(replied, [host |-> host, port |-> ScanInt(port, 0), data |-> data])
    /\ udpIn' = Append(udpIn, UdpReplyFrame(AssocId, JoinHostPort(host, port), data))
    /\ UNCHANGED peerOut
    /\ UNCHANGED << mainVars, lockVars, openVars, echVars, authVars, hwVars, assocVars, muVars, pingVars, ccVars >>

\* the read loop reads the UDP_DATA frame, finds the association in udpMap and
\* calls handleUDPResponse, which splits the address at ":", builds the SOCKS5
\* UDP packet and writes it to the latched client address; a failed write
\* (the listener is closed) ends in "assoc.done <- true"
\* (pool.go:239-256, socks5.go:515-548)
RecvUdpData ==
    /\ udpIn # << >>
    /\ apc.loop = "idle"
    /\ udpIn' = Tail(udpIn)
    /\ LET msg == Head(udpIn).msg
           parts == SplitN(Drop(msg, 9), Bar, 3)
           addr == Split(parts[2], ":")
       IN  IF /\ Head(udpIn).mt = Binary
              /\ Len(msg) > 9
              /\ HasPrefix(msg, Tag.UDP_DATA)
              /\ Len(parts) = 3
              /\ parts[1] = AssocId
              /\ assoc.registered
              /\ Len(addr) = 2
              /\ clientUDPAddr # 0
           THEN IF assoc.listener
                THEN /\ peerOut' = Append(peerOut,
                                          BuildSOCKS5UDPPacket(addr[1], ScanInt(addr[2], 0), parts[3]))
                     /\ UNCHANGED << apc, done >>
                ELSE /\ SendDone("loop")
                     /\ UNCHANGED peerOut
           ELSE UNCHANGED << peerOut, apc, done >>
    /\ UNCHANGED replied
    /\ UNCHANGED << assoc, clientUDPAddr, buffer, handlers, recvd, assocOut, nLoop >>
    /\ UNCHANGED << mainVars, lockVars, openVars, echVars, authVars, hwVars, muVars, pingVars, ccVars >>

\* an association and the datagrams that come back for it
NextReply ==
    \/ \E src \in UdpSrcs : RelayReads(src)
    \/ RelayFails
    \/ \E ok \in BOOLEAN : HandleUDPPacket(ok)
    \/ \E inTime \in BOOLEAN : WaiterEnds(inTime)
    \/ CtlFails
    \/ MainReceives
    \/ MainCloses
    \/ \E host \in PeerHosts, port \in PeerPorts, data \in Payloads : SrvUdpReplies(host, port, data)
    \/ RecvUdpData

(***************************************************************************)
(* The locks of the pool: p.mu (the registry's RWMutex) and p.wsMutexes[c]  *)
(* (the writer lock of channel c). Every operation of pool.go is the        *)
(* sequence of its lock operations and of its I/O, in the order of the      *)
(* code; a goroutine runs one operation after another.                      *)
(***************************************************************************)
MuChans == { 0, 1 }

Op(o, c) == [op |-> o, c |-> c]

\* RegisterAndClaim's fan-out for the channels from c on (pool.go:88-101)
RECURSIVE ProgClaims(_)
ProgClaims(c) ==
    IF c \notin MuChans
    THEN << >>
    ELSE << Op("MuLock", 0), Op("MuUnlock", 0),
            Op("WsLock", c), Op("WsWrite", c), Op("WsUnlock", c) >> \o ProgClaims(c + 1)

\* RegisterAndClaim (pool.go:76-102)
ProgRegisterAndClaim ==
    << Op("MuLock", 0), Op("MuUnlock", 0) >> \o ProgClaims(0)

\* SendData, SendClose, SendUDPData (pool.go:421-436, 439-454, 146-165)
ProgSend(c) ==
    << Op("MuRLock", 0), Op("MuRUnlock", 0),
       Op("WsLock", c), Op("WsWrite", c), Op("WsUnlock", c) >>

\* a turn of a handler's pump: it reads the local socket and calls SendData
\* (tcp_client.go:141-152, socks5.go:304-315)
ProgPump(c) ==
    << Op("SockRead", 0) >> \o ProgSend(c)

\* the deferred exit of a SOCKS5 or HTTP handler: SendClose, Close, and the
\* tcpMap entry deleted under p.mu (socks5.go:296-303, server.go:706-713)
ProgHandlerExit(c) ==
    ProgSend(c) \o << Op("SockClose", 0), Op("MuLock", 0), Op("MuUnlock", 0) >>

\* SendUDPConnect (pool.go:115-143)
ProgSendUDPConnect(c) ==
    << Op("MuRLock", 0), Op("MuRUnlock", 0), Op("MuLock", 0), Op("MuUnlock", 0),
       Op("WsLock", c), Op("WsWrite", c), Op("WsUnlock", c) >>

\* SendUDPClose of a bound session (pool.go:168-193)
ProgSendUDPClose(c) ==
    << Op("MuRLock", 0), Op("MuRUnlock", 0),
       Op("WsLock", c), Op("WsWrite", c), Op("WsUnlock", c),
       Op("MuLock", 0), Op("MuUnlock", 0) >>

\* the ping ticker and the ping handler's pong (pool.go:213-228)
ProgPing(c) ==
    << Op("WsLock", c), Op("WsWrite", c), Op("WsUnlock", c) >>

\* a CLAIM_ACK branch that would write the TCP frame before it unlocks p.mu
ProgClaimAckWritesLocked(c, ok) ==
    << Op("MuLock", 0),
       Op("WsLock", c), Op("WsWrite", c), Op("WsUnlock", c), Op("MuUnlock", 0) >>
    \o (IF ok THEN << >>
        ELSE << Op("MuLock", 0), Op("SockClose", 0), Op("MuUnlock", 0) >>)

\* the CLAIM_ACK branch of channel c's read loop that binds: the TCP frame is
\* written, and after a failed write (~ok) the session is removed
\* (pool.go:329-374)
ProgClaimAck(c, ok) ==
    << Op("MuLock", 0), Op("MuUnlock", 0),
       Op("WsLock", c), Op("WsWrite", c), Op("WsUnlock", c) >>
    \o (IF ok THEN << >>
        ELSE << Op("MuLock", 0), Op("SockClose", 0), Op("MuUnlock", 0) >>)

\* the CLAIM_ACK branch for a session that is bound already or unknown
\* (pool.go:333-341), and the CONNECTED branch (pool.go:375-385)
ProgLookup ==
    << Op("MuRLock", 0), Op("MuRUnlock", 0) >>

\* the CLOSE branch (pool.go:388-400)
ProgClose ==
    << Op("MuLock", 0), Op("SockClose", 0), Op("MuUnlock", 0) >>

\* the DATA branches: the payload is written to the local socket, and after a
\* failed write (~ok) the socket is closed and forgotten (pool.go:259-297);
\* the UDP_DATA branch ends with the write of handleUDPResponse (pool.go:239-256)
ProgData(ok) ==
    << Op("MuRLock", 0), Op("MuRUnlock", 0), Op("SockWrite", 0) >>
    \o (IF ok THEN << >>
        ELSE << Op("SockClose", 0), Op("MuLock", 0), Op("MuUnlock", 0) >>)

\* the goroutines: the read loop of each channel, a local handler and the
\* ping ticker of channel 0
Threads == { << "loop", c >> : c \in MuChans } \cup { << "handler" >>, << "ping" >> }

\* the operations a goroutine may run
Repertoire(t) ==
    IF t[1] = "loop"
    THEN { ProgClaimAck(t[2], ok) : ok \in BOOLEAN } \cup { ProgData(ok) : ok \in BOOLEAN }
         \cup { ProgLookup, ProgClose, ProgPing(t[2]) }
    ELSE IF t[1] = "handler"
    THEN { ProgRegisterAndClaim } \cup { ProgSend(c) : c \in MuChans }
         \cup { ProgPump(c) : c \in MuChans }
         \cup { ProgHandlerExit(c) : c \in MuChans }
         \cup { ProgSendUDPConnect(c) : c \in MuChans }
         \cup { ProgSendUDPClose(c) : c \in MuChans }
    ELSE { ProgPing(0) }

InitMu ==
    /\ tprog = [t \in Threads |-> << >>]
    /\ tpc = [t \in Threads |-> 1]
    /\ muW = {}
    /\ muR = {}
    /\ wsHeld = [c \in MuChans |-> {}]

\* the step goroutine t is to take, "none" when it runs no operation
NextOp(t) == IF tprog[t] = << >> THEN Op("none", 0) ELSE tprog[t][tpc[t]]

\* goroutines that called p.mu.Lock() and wait for it
WaitingWriters == { t \in Threads : NextOp(t) = Op("MuLock", 0) /\ (muW # {} \/ muR # {}) }

\* t's next step does not block: sync.Mutex.Lock needs the mutex free,
\* RWMutex.Lock no holder at all, RWMutex.RLock no writer holding or waiting
CanStep(t) ==
    LET o == NextOp(t)
    IN  /\ o.op # "none"
        /\ o = Op("MuLock", 0) => muW = {} /\ muR = {}
        /\ o = Op("MuRLock", 0) => muW = {} /\ WaitingWriters = {}
        /\ o.op = "WsLock" => wsHeld[o.c] = {}

\* a goroutine starts an operation
MuStart(t, prog) ==
    /\ tprog[t] = << >>
    /\ prog \in Repertoire(t)
    /\ tprog' = [tprog EXCEPT ![t] = prog]
    /\ UNCHANGED << tpc, muW, muR, wsHeld >>
    /\ UNCHANGED << mainVars, lockVars, openVars, echVars, authVars, hwVars, assocVars, replyVars, pingVars, ccVars >>

\* a goroutine takes its next step; after the last one the operation is over
MuStep(t) ==
    /\ CanStep(t)
    /\ LET o == NextOp(t)
       IN  /\ muW' = IF o = Op("MuLock", 0) THEN muW \cup {t}
                     ELSE IF o = Op("MuUnlock", 0) THEN muW \ {t} ELSE muW
           /\ muR' = IF o = Op("MuRLock", 0) THEN muR \cup {t}
                     ELSE IF o = Op("MuRUnlock", 0) THEN muR \ {t} ELSE muR
           /\ wsHeld' = IF o.op = "WsLock" THEN [wsHeld EXCEPT ![o.c] = @ \cup {t}]
                        ELSE IF o.op = "WsUnlock" THEN [wsHeld EXCEPT ![o.c] = @ \ {t}]
                        ELSE wsHeld
    /\ IF tpc[t] = Len(tprog[t])
       THEN /\ tprog' = [tprog EXCEPT ![t] = << >>]
            /\ tpc' = [tpc EXCEPT ![t] = 1]
       ELSE /\ tpc' = [tpc EXCEPT ![t] = @ + 1]
            /\ tprog' = tprog
    /\ UNCHANGED << mainVars, lockVars, openVars, echVars, authVars, hwVars, assocVars, replyVars, pingVars, ccVars >>

NextMu ==
    \/ \E t \in Threads : \E prog \in Repertoire(t) : MuStart(t, prog)
    \/ \E t \in Threads : MuStep(t)

(***************************************************************************)
(* The ping tickers: every handleChannel starts a goroutine that writes a   *)
(* ping on its connection at every tick (pool.go:220-228).                  *)
(***************************************************************************)
InitPing == pingers = [c \in Chans |-> EmptyMap]

\* the goroutine "go func() { t := time.NewTicker(...) ... }" of the
\* handleChannel of connection g starts to run (pool.go:220-222)
PingStart(c, g) ==
    /\ g \in 1..wsConns[c]
    /\ g \notin DOMAIN pingers[c]
    /\ pingers' = [pingers EXCEPT ![c] = MapPut(@, g, [pc |-> "waiting", failed |-> FALSE])]
    /\ UNCHANGED << mainVars, lockVars, openVars, echVars, authVars, hwVars, assocVars,
                    replyVars, muVars, ccVars >>

\* a tick: the goroutine takes the writer lock and calls WriteMessage
\* (pool.go:223-225)
PingTick(c, g) ==
    /\ g \in DOMAIN pingers[c]
    /\ pingers[c][g].pc = "waiting"
    /\ pingers' = [pingers EXCEPT ![c][g].pc = "writing"]
    /\ UNCHANGED << mainVars, lockVars, openVars, echVars, authVars, hwVars, assocVars,
                    replyVars, muVars, ccVars >>

\* WriteMessage returns; its error is dropped, and the goroutine waits for
\* the next tick (pool.go:225-227)
PingWritten(c, g, err) ==
    /\ g \in DOMAIN pingers[c]
    /\ pingers[c][g].pc = "writing"
    /\ err = ~(alive[c] /\ g = wsConns[c])
    /\ pingers' = [pingers EXCEPT ![c][g] = [pc |-> "waiting", failed |-> @.failed \/ err]]
    /\ UNCHANGED << mainVars, lockVars, openVars, echVars, authVars, hwVars, assocVars,
                    replyVars, muVars, ccVars >>

\* the channels and their tickers
NextPing ==
    \/ \E c \in Chans : DialOnce(c)
    \/ \E c \in Chans : TransportFail(c)
    \/ \E c \in Chans : RedialChannel(c)
    \/ \E c \in Chans, g \in 1..(MaxFail + 1) : PingStart(c, g)
    \/ \E c \in Chans, g \in 1..(MaxFail + 1) : PingTick(c, g)
    \/ \E c \in Chans, g \in 1..(MaxFail + 1), err \in BOOLEAN : PingWritten(c, g, err)

(***************************************************************************)
(* The read pump of a TCP session in the server with the congestion        *)
(* controller (server.go:454-608, part_000:35-118). The controller's only   *)
(* wake-ups are OnAck and OnLoss; OnLoss has no caller, and OnAck runs for  *)
(* an ACK:<id>|<seq> frame (server.go:382-399, 493-498), which no code of   *)
(* the client writes: the read loop never calls it.                         *)
(***************************************************************************)
\* initialWindow = 1 * 1024 * 1024
InitialWindow == 1 * 1024 * 1024

\* the sizes tcpConn.Read returns: a full pooled buffer, or a part of it
ReadSizes == { InitialWindow \div 4, InitialWindow }

\* reads of the origin socket that return data
MaxOriginReads == 4

\* limit := int(float64(c.cwnd) * 1.5)
Limit(cwnd) == (cwnd * 3) \div 2

InitCC ==
    /\ controller = [cwnd |-> InitialWindow, inFlight |-> 0]
    /\ srvPump = [pc |-> "top", n |-> 0, reads |-> 0, read |-> 0, sent |-> 0, idle |-> FALSE]
    /\ ctxDone = FALSE

CCUnchanged ==
    UNCHANGED << mainVars, lockVars, openVars, echVars, authVars, hwVars, assocVars,
                 replyVars, muVars, pingVars >>

\* the WebSocket's handler returns: its context is cancelled
CtxCancel ==
    /\ ~ctxDone
    /\ ctxDone' = TRUE
    /\ UNCHANGED << controller, srvPump >>
    /\ CCUnchanged

\* the select at the top of the loop (server.go:530-537)
PumpTop ==
    /\ srvPump.pc = "top"
    /\ srvPump' = [srvPump EXCEPT !.pc = IF ctxDone THEN "exited" ELSE "read"]
    /\ UNCHANGED << controller, ctxDone >>
    /\ CCUnchanged

\* tcpConn.Read returns n bytes (server.go:553, 574)
PumpRead(n) ==
    /\ srvPump.pc = "read"
    /\ srvPump.reads < MaxOriginReads
    /\ srvPump' = [srvPump EXCEPT !.pc = "window", !.n = n, !.reads = @ + 1, !.read = @ + n,
                                    !.idle = FALSE]
    /\ UNCHANGED << controller, ctxDone >>
    /\ CCUnchanged

\* the read deadline of 5 s passes: continue (server.go:539, 561-563)
PumpReadDeadline ==
    /\ srvPump.pc = "read"
    /\ srvPump' = [srvPump EXCEPT !.pc = "top", !.idle = TRUE]
    /\ UNCHANGED << controller, ctxDone >>
    /\ CCUnchanged

\* the origin closes: CLOSE is written and the pump returns (server.go:564-570)
PumpOriginEnds ==
    /\ srvPump.pc = "read"
    /\ srvPump' = [srvPump EXCEPT !.pc = "exited"]
    /\ UNCHANGED << controller, ctxDone >>
    /\ CCUnchanged

\* WaitWindow returns (part_000:59-72); otherwise the pump stays in cond.Wait
WaitWindow ==
    /\ srvPump.pc = "window"
    /\ controller.inFlight + srvPump.n <= Limit(controller.cwnd)
    /\ srvPump' = [srvPump EXCEPT !.pc = "write"]
    /\ UNCHANGED << controller, ctxDone >>
    /\ CCUnchanged

\* OnDataSent and the write of the DATA frame (server.go:595-606,
\* part_000:75-79); the pump returns when the write fails
PumpWrite(err) ==
    /\ srvPump.pc = "write"
    /\ err => ctxDone
    /\ controller' = [controller EXCEPT !.inFlight = @ + srvPump.n]
    /\ srvPump' = IF err
                  THEN [srvPump EXCEPT !.pc = "exited"]
                  ELSE [srvPump EXCEPT !.pc = "top", !.sent = @ + srvPump.n]
    /\ UNCHANGED ctxDone
    /\ CCUnchanged

PumpStep ==
    \/ PumpTop
    \/ \E n \in ReadSizes : PumpRead(n)
    \/ PumpReadDeadline
    \/ PumpOriginEnds
    \/ WaitWindow
    \/ \E err \in BOOLEAN : PumpWrite(err)

NextCC == CtxCancel \/ PumpStep

(***************************************************************************)
(* The system: a pool, its local handlers and the server.                   *)
(***************************************************************************)
\* the channels, the claim race and the sessions' life, with no payload
RaceNext ==
    \/ \E c \in Chans : DialOnce(c)
    \/ \E c \in Chans : RedialChannel(c)
    \/ \E c \in Chans : TransportFail(c)
    \/ \E id \in TcpIds, m \in {"tcp", "socks5"} : NoneAccepted /\ Accept(id, m, << >>)
    \/ \E id \in TcpIds : ClaimStep(id)
    \/ \E id \in TcpIds : WaitTrue(id)
    \/ \E id \in TcpIds : WaitTimeout(id)
    \/ \E id \in TcpIds : PumpReadErr(id)
    \/ \E c \in Chans : RecvClaimAck(c)
    \/ \E c \in Chans : EmitTcp(c)
    \/ \E c \in Chans : RecvConnected(c)
    \/ \E c \in Chans : RecvClose(c)
    \/ \E c \in Chans : SrvClaim(c)
    \/ \E c \in Chans : SrvTcp(c)
    \/ \E c \in Chans : \E r \in srvDial[c], ok \in BOOLEAN : SrvDial(c, r, ok)
    \/ \E c \in Chans : SrvClose(c)
    \/ \E c \in Chans : \E id \in DOMAIN srvSock[c] : SrvPumpErr(c, id)

\* the UDP associations
UdpNext ==
    \/ \E u \in UdpIds : NoneAccepted /\ UdpAssociate(u)
    \/ \E u \in UdpIds, b \in Payloads : UdpPacket(u, b)
    \/ \E u \in UdpIds : UdpWaitTrue(u)
    \/ \E u \in UdpIds : UdpWaitTimeout(u)
    \/ \E u \in UdpIds : UdpClose(u)
    \/ \E c \in Chans : RecvUdpConnected(c)
    \/ \E c \in Chans : RecvUdpError(c)
    \/ \E c \in Chans, ok \in BOOLEAN : SrvUdpConnect(c, ok)
    \/ \E c \in Chans : SrvUdpData(c)
    \/ \E c \in Chans : SrvUdpClose(c)

\* the payload: the first frame, the local application's writes, the echo
DataNext ==
    \/ \E id \in TcpIds, m \in {"tcp", "socks5"}, first \in FirstFrames \ {<< >>} :
            NoneAccepted /\ Accept(id, m, first)
    \/ \E id \in TcpIds, b \in Payloads : PumpSend(id, b)
    \/ \E id \in TcpIds : AsyncSendClose(id)
    \/ \E c \in Chans : RecvData(c)
    \/ \E c \in Chans : SrvData(c)
    \/ \E c \in Chans : \E id \in DOMAIN srvSock[c], n \in 1..2 : SrvPumpData(c, id, n)

InitSide == InitLock /\ InitOpen /\ InitEch /\ InitAuth /\ InitWs /\ InitAssoc /\ InitReply /\ InitMu /\ InitPing /\ InitCC

Init == InitPool(NumChannels) /\ InitSide

Next == RaceNext \/ UdpNext

Spec == Init /\ [][Next]_vars

InitData == InitPool(1) /\ InitSide

NextData == RaceNext \/ DataNext

SpecData == InitData /\ [][NextData]_vars

\* the read pump of the server with the congestion controller
SpecCC == Init /\ [][NextCC]_vars

\* the pump's goroutine is scheduled; the deadline of a read passes when no
\* data comes
SpecCCLive ==
    /\ SpecCC
    /\ WF_vars(PumpTop)
    /\ WF_vars(PumpReadDeadline)
    /\ WF_vars(WaitWindow)
    /\ WF_vars(\E err \in BOOLEAN : PumpWrite(err))

\* a TCP session and a UDP association that live at the same time on the one
\* channel of the pool
NextBoth ==
    \/ RaceNext
    \/ UdpNext
    \/ \E id \in TcpIds, m \in {"tcp", "socks5"} : Accept(id, m, << >>)
    \/ \E u \in UdpIds : UdpAssociate(u)

SpecBoth == InitData /\ [][NextBoth]_vars

\* the claim race of a session that has a first frame
NextReg ==
    \/ RaceNext
    \/ \E id \in TcpIds, m \in {"tcp", "socks5"}, first \in FirstFrames \ {<< >>} :
            NoneAccepted /\ Accept(id, m, first)

SpecReg == Init /\ [][NextReg]_vars

\* the goroutines of channel c: dialOnce, then the handleChannel of each of its
\* connections in turn, which redials when its read fails
HandleChannel(c) ==
    \/ DialOnce(c) \/ RedialChannel(c)
    \/ RecvClaimAck(c) \/ EmitTcp(c) \/ RecvConnected(c) \/ RecvClose(c)
    \/ RecvUdpConnected(c) \/ RecvUdpError(c)

\* the server's read loop for the connection of channel c
HandleWebSocket(c) ==
    \/ SrvClaim(c) \/ SrvTcp(c) \/ SrvClose(c)
    \/ SrvUdpData(c) \/ SrvUdpClose(c)
    \/ \E ok \in BOOLEAN : SrvUdpConnect(c, ok)

\* every goroutine that can take a step eventually takes one: the read loops,
\* the redial (a dial eventually succeeds), RegisterAndClaim's loop
Fairness ==
    /\ \A c \in Chans : WF_vars(HandleChannel(c)) /\ WF_vars(HandleWebSocket(c))
    /\ \A id \in TcpIds : WF_vars(ClaimStep(id))

SpecLive == Spec /\ Fairness

\* the goroutines the server's read loop of channel c started: the
\* handleTCPConnection of each TCP frame and its read pump
SrvGoroutines(c) ==
    \/ \E r \in srvDial[c], ok \in BOOLEAN : SrvDial(c, r, ok)
    \/ \E id \in DOMAIN srvSock[c] : SrvPumpErr(c, id)

\* the server's goroutines run too
SpecLiveSrv == SpecLive /\ \A c \in Chans : WF_vars(SrvGoroutines(c))

SpecLock == Init /\ [][NextLock]_vars

SpecOpen == InitData /\ [][NextOpen]_vars

\* the data path against the server variant of server.go
NextSeq ==
    \/ RaceNext
    \/ \E id \in TcpIds, m \in {"tcp", "socks5"}, first \in FirstFrames \ {<< >>} :
            NoneAccepted /\ Accept(id, m, first)
    \/ \E id \in TcpIds, b \in Payloads : PumpSend(id, b)
    \/ \E id \in TcpIds : AsyncSendClose(id)
    \/ \E c \in Chans : RecvData(c)
    \/ \E c \in Chans : SrvData(c)
    \/ \E c \in Chans : \E id \in DOMAIN srvSock[c], n \in 1..2 : SrvPumpDataSeq(c, id, n)

SpecSeq == InitData /\ [][NextSeq]_vars

\* the claim race with a peer that reports errors
NextErr ==
    \/ RaceNext
    \/ \E c \in Chans : RecvError(c)
    \/ \E c \in Chans, id \in TcpIds : PeerSends(c, ErrorFrame(id))

SpecReply == Init /\ [][NextReply]_vars

SpecMu == Init /\ [][NextMu]_vars

SpecPing == Init /\ [][NextPing]_vars

SpecErr == Init /\ [][NextErr]_vars

SpecECH == Init /\ [][NextEch]_vars

SpecWs == Init /\ [][NextWs]_vars

SpecAssoc == Init /\ [][NextAssoc]_vars

\* the goroutines of the server run; what the client, the origin and the
\* network do is not forced
SpecWsLive == SpecWs /\ \A id \in Ids : WF_vars(WsGoroutines(id))

InitAny == InitPool(NumChannels) /\ InitLock /\ InitOpen /\ InitEch /\ InitAuthAny /\ InitWs /\ InitAssoc /\ InitReply /\ InitMu /\ InitPing /\ InitCC
SpecAuth == InitAny /\ [][NextAuth]_vars

(***************************************************************************)
(* Properties.                                                              *)
(***************************************************************************)
\* the handleChannel goroutines that have bound id and not yet written its TCP frame
Emitters(id) == { c \in Chans : emitting[c] # EmptyMap /\ emitting[c].id = id }

\* the registry of the pool
registry == << tcpMap, udpMap, channelMap, connInfo, claimTimes, connected, boundByChannel >>

\* C1: of the CLAIM_ACK frames processed for a session, on whatever channels
\* and in whatever order, exactly one binds it (channelMap is set and the TCP
\* frame is written, once); every other one changes nothing in the registry
\* and writes no frame.
ClaimAckBindsOnce ==
    /\ [](\A id \in TcpIds :
            /\ nAck[id] >= 1 => nBind[id] = 1
            /\ nBind[id] <= 1
            /\ nTcpEmit[id] + Cardinality(Emitters(id)) = nBind[id])
    /\ [][\A c \in Chans :
            (RecvClaimAck(c) /\ nBind' = nBind)
                => UNCHANGED << registry, c2s, emitting, closeCalls >>]_vars

\* a second CLAIM_ACK of a session has been processed, after the first bound it
\* and its TCP frame was written
ClaimAckLoserSeen ==
    \E id \in TcpIds : nAck[id] >= 2 /\ nBind[id] = 1 /\ nTcpEmit[id] = 1

\* C2: the channel of a session, when it has one, is an index of the pool, and
\* it is the channel the session was first bound to (by a CLAIM_ACK or by
\* SendUDPConnect): no step changes it to another one, whatever happens to the
\* channel's connection afterwards.
ChannelBindingStable ==
    /\ [](\A id \in DOMAIN channelMap :
            /\ channelMap[id] \in 0..(connectionNum - 1)
            /\ id \in DOMAIN firstBound
            /\ channelMap[id] = firstBound[id].ch)
    /\ [][\A id \in (DOMAIN channelMap) \cap (DOMAIN channelMap') :
            channelMap'[id] = channelMap[id]]_vars

\* a session is bound to a channel that has reconnected since the binding
BoundAcrossReconnect ==
    \E id \in DOMAIN channelMap :
        /\ id \in DOMAIN firstBound
        /\ wsConns[channelMap[id]] > firstBound[id].gen
        /\ alive[channelMap[id]]

\* the writers in the middle of a WriteMessage on the WebSocket of side sd,
\* connection g
WritingOn(sd, g) == { w \in Writers : w.side = sd /\ wpc[w] = "writing" /\ wws[w] = g }

\* C3: whoever is writing a frame to a WebSocket (any of the client's and of
\* the server's write sites) holds the mutex of that channel from before the
\* write starts until after it returns, so no two writes on the same
\* WebSocket are ever in progress together.
WritesUnderLock ==
    /\ \A w \in Writers : wpc[w] \in { "locked", "writing" } => holder[WMutex(w, wws[w])] = {w}
    /\ \A sd \in { "client", "server" }, g \in Gens : Cardinality(WritingOn(sd, g)) <= 1

\* a client writer is in the middle of a write on the old connection while
\* another waits at its site for the mutex to write on the new one
WriterWaitsForWriter ==
    \E w \in Writers :
        /\ w.side = "client"
        /\ wpc[w] = "writing"
        /\ wws[w] < lgen
        /\ \E v \in Writers \ {w} : v.side = "client" /\ wpc[v] = "idle" /\ ~ENABLED WLock(v, lgen)

\* C4: when a channel whose transport failed reconnects, every session bound
\* to it is lost: the step that stores the new connection leaves each such
\* session with its local socket closed and out of the registry.
SessionsLostOnReconnect ==
    [][\A c \in Chans :
          (wsConns[c] > 0 /\ wsConns'[c] > wsConns[c])
              => \A id \in TcpIds :
                    (id \in DOMAIN channelMap /\ channelMap[id] = c)
                        => /\ closeCalls'[id] >= 1
                           /\ id \notin tcpMap'
                           /\ id \notin DOMAIN channelMap']_vars

\* the session was registered and is no longer in the registry
Removed(id) == pc[id] # "idle" /\ id \notin tcpMap

IsPrefix(a, b) == Len(a) <= Len(b) /\ SubSeq(b, 1, Len(a)) = a

\* a byte of the tunnelled stream, not a SOCKS5 reply of the handler
IsPayload(x) == x \notin { SocksOK[1], SocksFail[1] }

\* what the local socket received from the tunnel
Delivered(id) == SelectSeq(sockIn[id], IsPayload)

\* the session is connected, nothing failed and nothing is on its way
Quiet(id) ==
    /\ pc[id] = "pump"
    /\ closeCalls[id] = 0
    /\ fails = 0
    /\ ~crashed
    /\ \A c \in Chans : c2s[c] = << >> /\ s2c[c] = << >> /\ emitting[c] = EmptyMap
    /\ \E c \in Chans : /\ id \in DOMAIN srvSock[c]
                        /\ srvSock[c][id].buf = << >>
                        /\ ~srvSock[c][id].closed

\* C7: what comes back to the local socket of a TCP session whose origin
\* echoes is what the local application wrote, byte for byte and in order:
\* always a prefix of it, and all of it once nothing is left on the way.
RoundTrip ==
    \A id \in TcpIds :
        /\ IsPrefix(Delivered(id), appOut[id])
        /\ Quiet(id) => Delivered(id) = appOut[id]

\* a first frame and a chunk with a separator in it have made the round trip
RoundTripDone ==
    \E id \in TcpIds :
        /\ Quiet(id)
        /\ nChunks[id] >= 1
        /\ Len(appOut[id]) >= 4
        /\ Delivered(id) = appOut[id]

ConnectedSignalOneShot ==
    /\ [](\A id \in Ids : waitRes[id] = "true" => nConnRecv[id] >= 1)
    /\ [](\A id \in DOMAIN connected : connected[id] \in { 0, 1 })
    /\ [](\A c \in Chans :
            (ClientReads(c, "CONNECTED") \/ ClientReads(c, "UDP_CONNECTED"))
                => ENABLED (RecvConnected(c) \/ RecvUdpConnected(c)))
    /\ [][\A c \in Chans, id \in Ids :
            ((RecvConnected(c) \/ RecvUdpConnected(c)) /\ ChanReady(id))
                => connected' = connected]_vars

\* WaitConnected returned true and a later frame for the same id was received
LateConnectedSeen ==
    \E id \in Ids : waitRes[id] = "true" /\ nConnRecv[id] >= 2

\* C9: a channel is running only on a connection whose TLS handshake offered
\* a non-empty ECH config list that the server honoured, and no ClientHello
\* is ever sent without an ECH config list; a dialer whose handshake was
\* rejected, or that has no cached list, is not running.
EchOnly ==
    /\ \A d \in Chans :
         dpc[d] = "running" =>
            /\ hs[d].offered # << >>
            /\ hs[d].honoured
    /\ << >> \notin offered
    /\ echList = << >> => \A d \in Chans : dpc[d] # "running"

EchRetried ==
    \E d \in Chans :
        /\ dpc[d] = "running"
        /\ attempt[d] = MaxRetries
        /\ nEnv > 0
        /\ hs[d].offered = << srvKey >>

\* C10: a request is upgraded only if its source IP is in one of the allowed
\* networks and, with a token configured, its subprotocol equals the token;
\* a request from outside gets 403, one with a wrong token 401, and neither
\* is handed to handleWebSocket.
UpgradeOnlyIfAllowed ==
    \A i \in 1..Len(alog) :
        LET e == alog[i]
            inCidr == \E n \in allowedNets : \A j \in 1..Len(n) : e.ip[j] = n[j]
            tokOk == token # << >> => e.proto = token
        IN  /\ e.ws => inCidr /\ tokOk
            /\ ~inCidr => e.status = 403 /\ ~e.ws
            /\ inCidr /\ ~tokOk => e.status = 401 /\ ~e.ws

UpgradedAndRefused ==
    /\ token # << >>
    /\ << >> \notin allowedNets
    /\ \E i, j \in 1..Len(alog) :
         /\ alog[i].ws
         /\ alog[j].status = 401

\* C11: SendUDPConnect binds the session to the lowest-numbered live channel
\* and writes UDP_CONNECT on it, and it returns an error only if no channel is
\* live.
UdpConnectOnLowestLive ==
    "SendUDPConnect" \in DOMAIN calls =>
        LET r == calls["SendUDPConnect"]
        IN  /\ r.err => r.live = {}
            /\ \A c \in r.live : (\A d \in r.live : c <= d) => r.chosen = {c}

\* C12: SendUDPData and SendUDPClose write on the session's bound channel; for
\* a session that is not bound they write nothing and return no error.
UnboundSendIsSilent ==
    \A op \in { "SendUDPData", "SendUDPClose" } \cap DOMAIN calls :
        /\ calls[op].wrote = calls[op].bound
        /\ ~calls[op].bound => ~calls[op].err

\* C19: outside the registry lock, an id that has a channel in channelMap is a
\* key of tcpMap or of udpMap.
RegistryWhole ==
    \A id \in DOMAIN channelMap : id \in tcpMap \cup udpMap

\* the CLAIM of session id is in flight on channel c
ClaimInFlight(id, c) ==
    \E k \in 1..Len(c2s[c]) : c2s[c][k] = ClaimFrame(id, c)

\* C13: the server answers every CLAIM it reads with the CLAIM_ACK of the same
\* id and channel index on the connection that carried it, and keeps nothing;
\* and a session whose CLAIM is in flight on a working channel is eventually
\* bound, unless that channel's transport fails.
ClaimedIsBound ==
    /\ [][\A c \in Chans :
            (ServerReads(c, "CLAIM") /\ alive[c] /\ alive'[c] /\ c2s'[c] = Tail(c2s[c])) =>
                /\ s2c'[c] = Append(s2c[c],
                                    Frame(Text, Tag.CLAIM_ACK \o Drop(Head(c2s[c]).msg, 6)))
                /\ UNCHANGED srvVars]_vars
    /\ \A id \in TcpIds, c \in Chans :
         (ClaimInFlight(id, c) /\ alive[c]) ~> (nBind[id] >= 1 \/ ~alive[c])

ClaimedThenBound ==
    \E id \in TcpIds :
        /\ nBind[id] = 1
        /\ nAck[id] = connectionNum
        /\ fails = 0
        /\ id \in DOMAIN channelMap

\* C18: each channel has at most one read loop, the one of the connection in its
\* slot; a channel whose transport failed is redialed and works again (unless
\* the process has panicked meanwhile); and the failure of one channel leaves
\* the other channels' connections and read loops as they are.
ChannelReconnects ==
    /\ [](\A c \in Chans :
            /\ Cardinality(readers[c]) <= 1
            /\ wsConns[c] # 0 => readers[c] = { wsConns[c] })
    /\ \A c \in Chans : (wsConns[c] # 0 /\ ~alive[c]) ~> (alive[c] \/ crashed)
    /\ [][\A c \in Chans :
            (alive[c] /\ ~alive'[c]) =>
                \A d \in Chans \ {c} :
                    /\ readers'[d] = readers[d]
                    /\ wsConns'[d] = wsConns[d]
                    /\ alive'[d] = alive[d]
                    /\ s2c'[d] = s2c[d]]_vars

\* a session registered after a reconnect is bound on the new connection
BoundAfterReconnect ==
    \E id \in TcpIds : \E c \in Chans :
        /\ id \in DOMAIN firstBound
        /\ firstBound[id] = [ch |-> c, gen |-> 2]
        /\ readers[c] = {2}
        /\ fails = 1

\* frame f is in the frames the server has written
Written(f) == \E k \in 1..Len(wsOut) : wsOut[k] = f

\* the bytes p were written to the socket, in one piece
WrittenTo(got, p) ==
    \E k \in 0..(Len(got) - Len(p)) : SubSeq(got, k + 1, k + Len(p)) = p

\* C14: for a TCP frame the server has read: a DATA frame for id is written
\* only after CONNECTED:<id>; CONNECTED:<id> is written only after the dial
\* succeeded and the first frame was written to the origin; after a failed
\* dial CLOSE:<id> is written (to a WebSocket that is still open) and
\* CONNECTED:<id> never is. (A first frame the origin refuses is answered with
\* CLOSE:<id> and no CONNECTED:<id>.)
TcpRepliesInOrder ==
    \A id \in DOMAIN tcpGo :
        /\ \A k \in 1..Len(wsOut) :
             (wsOut[k].mt = Binary /\ HasPrefix(wsOut[k].msg, Tag.DATA \o id \o << Bar >>)) =>
                 \E j \in 1..(k - 1) : wsOut[j] = ConnectedFrame(id)
        /\ Written(ConnectedFrame(id)) =>
             /\ tcpGo[id].pc \in { "pump", "exit" }
             /\ id \in DOMAIN origin
             /\ WrittenTo(origin[id].got, tcpGo[id].first)
        /\ (tcpGo[id].pc = "pump" /\ wsOpen) => Written(ConnectedFrame(id))
        /\ tcpGo[id].pc = "failed" =>
             /\ ~Written(ConnectedFrame(id))
             /\ ~tcpGo[id].late => Written(CloseFrame(id))

\* the origin was dialed, got the first frame, and its bytes were relayed
DataAfterConnected ==
    \E id \in DOMAIN tcpGo :
        /\ tcpGo[id].first # << >>
        /\ Written(ServerDataFrame(id, << "y" >>))
        /\ Written(ConnectedFrame(id))

\* C15: once a write of DATA to the origin socket of id has failed, that socket
\* is closed and CLOSE:<id> has been written to the client.
DataWriteFailureCloses ==
    \A id \in DOMAIN origin :
        origin[id].wfail => (~origin[id].open /\ Written(CloseFrame(id)))

\* every socket of the WebSocket is closed and every goroutine has ended
AllReleased ==
    /\ \A id \in DOMAIN origin : ~origin[id].open
    /\ \A id \in DOMAIN tcpGo : tcpGo[id].pc \in { "failed", "exit" }
    /\ \A id \in DOMAIN udpConns : ~udpConns[id].open /\ ~udpConns[id].pump

\* C16: after the read loop of the WebSocket has exited, every origin socket is
\* eventually closed and every goroutine of a session ends, also those of a
\* TCP session whose dial returns after the exit.
ClosedWsReleasesAll ==
    (~wsOpen) ~> AllReleased

\* a dial returned after the WebSocket closed, and its socket was closed too
LateDialReleased ==
    /\ ~wsOpen
    /\ AllReleased
    /\ \E id \in DOMAIN origin : tcpGo[id].late
    /\ \E id \in DOMAIN udpConns : TRUE

\* number of frames of the given kinds the association has sent
SentFrames(kinds) ==
    Cardinality({ k \in 1..Len(assocOut) : assocOut[k].kind \in kinds })

ReadLoopNeverStuck ==
    ~(apc.loop = "blocked" /\ apc.main # "waiting")

\* C21: when the pump of a connected session ends (local end-of-file or read
\* error), CLOSE:<id> is written on the channel the session is bound to; the
\* server, reading it, closes the origin socket of id and forgets it; and the
\* session is eventually out of tcpMap and of channelMap (in a process that
\* still runs), in the port-forward mode as in the modes whose handler deletes
\* the tcpMap entry itself.
LocalEOFDestroys ==
    /\ [][\A id \in TcpIds :
            (pc[id] = "pump" /\ pc'[id] = "done") =>
                IF Bound(channelMap, id) /\ alive[channelMap[id]]
                THEN c2s' = [c2s EXCEPT ![channelMap[id]] = Append(@, CloseFrame(id))]
                ELSE c2s' = c2s]_vars
    /\ [][\A c \in Chans :
            (ServerReads(c, "CLOSE") /\ alive'[c] /\ c2s'[c] = Tail(c2s[c])) =>
                LET id == TrimPrefix(Head(c2s[c]).msg, Tag.CLOSE)
                IN  /\ id \notin srvConns'[c]
                    /\ id \in DOMAIN srvSock[c] => srvSock'[c][id].closed]_vars
    /\ \A id \in TcpIds :
         (pc[id] = "done" /\ waitRes[id] = "true") ~>
             ((id \notin tcpMap /\ id \notin DOMAIN channelMap) \/ crashed)

\* C22: once the main goroutine of an association has run Close (after the
\* control connection closed, the UDP socket failed or the wait timed out), the
\* listener is closed, UDP_CLOSE was sent at most once and only for a session
\* that was bound, and the session is out of udpMap, bound or not.
ClosedAssociationForgotten ==
    /\ SentFrames({ "UDP_CLOSE" }) <= SentFrames({ "UDP_CONNECT" })
    /\ apc.main = "returned" =>
         /\ assoc.closed
         /\ ~assoc.listener
         /\ ~assoc.registered

TcpFrameOnceOnBoundChannel ==
    /\ [](\A id \in TcpIds : nTcpEmit[id] <= 1)
    /\ [][\A id \in TcpIds :
            nTcpEmit'[id] # nTcpEmit[id] =>
                \E c \in Chans :
                    /\ emitting[c] # EmptyMap
                    /\ emitting[c].id = id
                    /\ id \in DOMAIN firstBound
                    /\ firstBound[id].ch = c
                    /\ \/ c2s' = c2s
                       \/ c2s' = [c2s EXCEPT ![c] = Append(@,
                              [mt |-> Text,
                               msg |-> Tag.TCP \o id \o << Bar >> \o Target \o << Bar >> \o appOut[id]])]]_vars
    /\ [][\A c \in Chans :
            (Len(c2s'[c]) = Len(c2s[c]) + 1 /\ ServerKind(c2s'[c][Len(c2s'[c])]) = "TCP") =>
                \E id \in TcpIds : nTcpEmit'[id] = nTcpEmit[id] + 1]_vars

\* a session with a first frame was bound to the second channel and its TCP
\* frame is in flight there
TcpFrameOnSecondChannel ==
    \E id \in TcpIds :
        /\ nTcpEmit[id] = 1
        /\ firstBound[id].ch = 1
        /\ appOut[id] # << >>
        /\ c2s[0] = << >>
        /\ c2s[1] # << >>
        /\ ServerKind(c2s[1][Len(c2s[1])]) = "TCP"

\* the registry holds nothing of session id, and channel c is nobody's
Forgotten(id, c) ==
    /\ id \notin tcpMap'
    /\ id \notin DOMAIN channelMap'
    /\ id \notin DOMAIN connInfo'
    /\ id \notin DOMAIN claimTimes'
    /\ c \notin DOMAIN boundByChannel'

\* C25: the write of the TCP frame either puts the frame in flight, or is
\* lost with a broken transport leaving the registry as it is, or fails, and
\* then the local socket of the session is closed (if it is still registered)
\* and the session is out of tcpMap, channelMap, connInfo, claimTimes and
\* boundByChannel; a session is bound at most once and its TCP frame written
\* at most once, whatever CLAIM_ACK arrives afterwards on another channel.
TcpEmitFailureRemoves ==
    /\ [](\A id \in TcpIds : nBind[id] <= 1 /\ nTcpEmit[id] <= nBind[id])
    /\ [][\A c \in Chans :
            (emitting[c] # EmptyMap /\ emitting'[c] = EmptyMap) =>
                LET id == emitting[c].id
                IN  \/ /\ alive[c]
                       /\ Len(c2s'[c]) = Len(c2s[c]) + 1
                       /\ UNCHANGED << tcpMap, channelMap, connInfo, claimTimes,
                                       boundByChannel, closeCalls >>
                    \/ /\ ~alive[c]
                       /\ c2s' = c2s
                       /\ \/ UNCHANGED << tcpMap, channelMap, connInfo, claimTimes,
                                          boundByChannel, closeCalls >>
                          \/ /\ Forgotten(id, c)
                             /\ closeCalls' = IF id \in tcpMap
                                              THEN [closeCalls EXCEPT ![id] = @ + 1]
                                              ELSE closeCalls]_vars
    /\ [][\A id \in TcpIds :
            (nTcpEmit[id] = 1 /\ id \notin DOMAIN channelMap) =>
                /\ id \notin DOMAIN channelMap'
                /\ nTcpEmit'[id] = 1]_vars

\* the write of the TCP frame failed on the first channel, the session was
\* closed and removed, and the CLAIM_ACK of the second channel was discarded
LateAckAfterFailedEmit ==
    \E id \in TcpIds :
        /\ nTcpEmit[id] = 1
        /\ nBind[id] = 1
        /\ nAck[id] = 2
        /\ firstBound[id].ch = 0
        /\ ~alive[0]
        /\ wsConns[0] = 1
        /\ closeCalls[id] = 1
        /\ pc[id] = "wait"
        /\ id \notin tcpMap
        /\ id \notin DOMAIN channelMap
        /\ \A c \in Chans : c2s[c] = << >> /\ s2c[c] = << >> /\ srvDial[c] = {}

\* C26: when the read loop of a channel reads "ERROR:<text>" or "CLOSE:<id>",
\* the session it names is out of tcpMap and channelMap after the step, its
\* local socket closed if it was registered.
ErrorOrCloseRemoves ==
    [][\A c \in Chans :
         (/\ s2c[c] # << >>
          /\ ClientKind(Head(s2c[c])) \in { "ERROR", "CLOSE" }
          /\ s2c'[c] = Tail(s2c[c])
          /\ alive'[c]) =>
             LET id == TrimPrefix(TrimPrefix(Head(s2c[c]).msg, Tag.ERROR), Tag.CLOSE)
             IN  /\ id \notin tcpMap'
                 /\ id \notin DOMAIN channelMap'
                 /\ id \in tcpMap => closeCalls'[id] = closeCalls[id] + 1]_vars

\* C27: when the write of an inbound DATA payload to the local socket of a
\* session fails, the socket is closed, the sending of CLOSE:<id> is started,
\* and the session is out of the registry (tcpMap, channelMap and
\* boundByChannel) after the step; the CLOSE:<id> frame goes out on the
\* channel the session is bound to.
DataWriteFailureRemoves ==
    /\ [][\A c \in Chans :
            (/\ s2c[c] # << >>
             /\ ClientKind(Head(s2c[c])) = "DATA"
             /\ s2c'[c] = Tail(s2c[c])
             /\ alive'[c]) =>
                LET id == SplitN(Drop(Head(s2c[c]).msg, 5), Bar, 2)[1]
                IN  (id \in tcpMap /\ closeCalls[id] > 0) =>
                        /\ closeCalls'[id] = closeCalls[id] + 1
                        /\ id \in closeTasks'
                        /\ id \notin tcpMap'
                        /\ id \notin DOMAIN channelMap'
                        /\ \A d \in DOMAIN boundByChannel' : boundByChannel'[d] # id]_vars
    /\ [][\A id \in TcpIds :
            (id \in closeTasks /\ id \notin closeTasks') =>
                IF Bound(channelMap, id) /\ alive[channelMap[id]]
                THEN c2s' = [c2s EXCEPT ![channelMap[id]] = Append(@, CloseFrame(id))]
                ELSE c2s' = c2s]_vars

\* C28: the slot of a channel holds a live transport or nothing: a slot that
\* is set never holds a transport that has failed, so no operation that tests
\* the slot (RegisterAndClaim, SendUDPConnect, SendData) writes to one.
SlotLiveOrNone ==
    \A c \in Chans : wsConns[c] = 0 \/ alive[c]

\* C30: of the frames the client has written, the data frames (DATA:<id>|...
\* of SendData, UDP_DATA:<id>|... of SendUDPData) are Binary messages and
\* every other frame is a Text message.
ClientDataFramesBinary ==
    \A c \in Chans : \A i \in DOMAIN c2s[c] :
        LET f == c2s[c][i]
        IN  IF HasPrefix(f.msg, Tag.DATA) \/ HasPrefix(f.msg, Tag.UDP_DATA)
            THEN f.mt = Binary
            ELSE f.mt = Text

PumpFramesCarryOriginBytes ==
    /\ [][\A c \in Chans : \A id \in DOMAIN srvSock[c] :
            (/\ id \in DOMAIN srvSock'[c]
             /\ Len(srvSock'[c][id].buf) < Len(srvSock[c][id].buf)
             /\ Len(s2c'[c]) = Len(s2c[c]) + 1) =>
                LET f == s2c'[c][Len(s2c'[c])]
                    n == Len(srvSock[c][id].buf) - Len(srvSock'[c][id].buf)
                    parts == SplitN(Drop(f.msg, 5), Bar, 2)
                IN  /\ HasPrefix(f.msg, Tag.DATA)
                    /\ Len(parts) = 2
                    /\ parts[1] = id
                    /\ parts[2] = SubSeq(srvSock[c][id].buf, 1, n)]_vars
    /\ [](\A c \in Chans : \A id \in DOMAIN srvSock[c] :
            id \in TcpIds => IsPrefix(Delivered(id), srvSock[c][id].got))

\* C32: when the read loop takes a UDP_DATA frame of the server's receive
\* pump while the association is registered, has a latched client address
\* and an open listener, one SOCKS5 UDP packet is written to that address, and
\* it carries the host, the port and the payload of the datagram the server
\* received, whatever the peer's address family and payload.
UdpReplyWrapped ==
    [][(udpIn # << >> /\ udpIn' = Tail(udpIn)
        /\ assoc.registered /\ clientUDPAddr # 0 /\ assoc.listener) =>
            LET r == replied[Len(replied) - Len(udpIn) + 1]
            IN  /\ Len(peerOut') = Len(peerOut) + 1
                /\ peerOut'[Len(peerOut')].host = r.host
                /\ peerOut'[Len(peerOut')].port = r.port
                /\ peerOut'[Len(peerOut')].data = r.data]_vars

\* the locks goroutine t holds
HeldBy(t) ==
    (IF t \in muW \cup muR THEN { << "mu" >> } ELSE {})
    \cup { << "wsMutexes", c >> : c \in { d \in MuChans : t \in wsHeld[d] } }

\* C33: on the client, a goroutine that holds the writer lock of a channel
\* holds no other lock and is at the WebSocket write on that channel or at
\* the Unlock after it; a goroutine at a WebSocket write or at a read or write
\* of a local socket does not hold the registry lock; the locks exclude as
\* they should; and no goroutine that runs an operation waits forever: one
\* that holds a lock can always take its next step, so whenever operations
\* are running one of them can go on.
LockDiscipline ==
    /\ \A t \in Threads : \A c \in MuChans :
          t \in wsHeld[c] =>
              /\ HeldBy(t) = { << "wsMutexes", c >> }
              /\ NextOp(t) \in { Op("WsWrite", c), Op("WsUnlock", c) }
    /\ \A t \in Threads :
          NextOp(t).op \in { "WsWrite", "SockWrite", "SockRead" } => << "mu" >> \notin HeldBy(t)
    /\ \A t \in Threads : NextOp(t).op = "WsWrite" => HeldBy(t) = { << "wsMutexes", NextOp(t).c >> }
    /\ \A c \in MuChans : Cardinality(wsHeld[c]) <= 1
    /\ Cardinality(muW) <= 1 /\ (muW # {} => muR = {})
    /\ \A t \in Threads : HeldBy(t) # {} => CanStep(t)
    /\ (\E t \in Threads : tprog[t] # << >>) => \E t \in Threads : CanStep(t)

\* the handler waits for the writer lock of channel 0, which the ping ticker
\* holds for its write, while the read loop of channel 1 holds the registry
\* lock and the loop of channel 0 waits for it
LockContention ==
    /\ NextOp(<< "ping" >>) = Op("WsWrite", 0)
    /\ NextOp(<< "handler" >>) = Op("WsLock", 0) /\ ~CanStep(<< "handler" >>)
    /\ << "loop", 1 >> \in muW
    /\ NextOp(<< "loop", 0 >>) = Op("MuLock", 0) /\ ~CanStep(<< "loop", 0 >>)

\* C34: whenever RegisterAndClaim's loop records the claim time of a channel
\* whose slot is set, claimTimes still has the entry of the session, whatever
\* the read loops have handled in between; so the process never panics.
ClaimTimesNeverNil ==
    /\ [][\A id \in TcpIds :
            (pc[id] = "claim" /\ claimI'[id] = claimI[id] + 1 /\ wsConns[claimI[id]] # 0)
                => id \in DOMAIN claimTimes]_vars
    /\ [](~crashed)

\* C35: on the local socket of a SOCKS5 (or HTTP CONNECT) session whose wait
\* for CONNECTED did not time out, the handler's success reply comes before
\* every byte of tunnelled payload.
ReplyBeforeData ==
    \A id \in TcpIds :
        (mode[id] = "socks5" /\ waitRes[id] # "false") =>
            \A k \in 1..Len(sockIn[id]) :
                IsPayload(sockIn[id][k]) =>
                    \E j \in 1..(k - 1) : sockIn[id][j] = SocksOK[1]

\* C36: a TCP session whose WaitConnected timed out does not stay: its
\* entries in tcpMap, connInfo, claimTimes and channelMap are eventually gone
\* (in a process that still runs), and eventually the server holds no origin
\* socket for it.
TimedOutSessionRemoved ==
    \A id \in TcpIds :
        /\ (waitRes[id] = "false") ~>
              (\/ /\ id \notin tcpMap
                  /\ id \notin DOMAIN connInfo
                  /\ id \notin DOMAIN claimTimes
                  /\ id \notin DOMAIN channelMap
               \/ crashed)
        /\ (waitRes[id] = "false") ~>
              (\A c \in Chans : id \notin DOMAIN srvSock[c] /\ id \notin srvConns[c])

\* C37: at most one ping ticker goroutine runs per channel at any time: the
\* ticker of a connection whose read loop has ended runs no more.
OnePingTaskPerChannel ==
    \A c \in Chans :
        /\ Cardinality(DOMAIN pingers[c]) <= 1
        /\ \A g \in DOMAIN pingers[c] : g \in readers[c]

\* the fallback binding of channel c is kept by the step when it refers to a
\* session other than id
KeepsBindingOfOthers(c, id) ==
    (c \in DOMAIN boundByChannel /\ boundByChannel[c] # id) =>
        (c \in DOMAIN boundByChannel' /\ boundByChannel'[c] = boundByChannel[c])

\* C38: closing one session leaves the binding state of every other session:
\* the handling of CLOSE:<id> on channel c, and SendUDPClose(id) of a session
\* bound to c, remove boundByChannel[c] only when it refers to id; and the
\* fallback binding of a channel that names a registered session is the
\* channel that session is bound to.
CloseLeavesOtherBindings ==
    /\ [][\A c \in Chans :
            /\ (ClientReads(c, "CLOSE") /\ s2c'[c] = Tail(s2c[c])) =>
                   KeepsBindingOfOthers(c, TrimPrefix(Head(s2c[c]).msg, Tag.CLOSE))
            /\ \A u \in UdpIds :
                   (upc[u] = "relay" /\ upc'[u] = "closed" /\ Bound(channelMap, u)
                        /\ channelMap[u] = c) =>
                       KeepsBindingOfOthers(c, u)]_vars
    /\ [](\A c \in DOMAIN boundByChannel :
            boundByChannel[c] \in DOMAIN channelMap => channelMap[boundByChannel[c]] = c)

\* the UDP_DATA frames the association has written
DataFramesOut == { k \in 1..Len(assocOut) : assocOut[k].kind = "UDP_DATA" }

\* C39: each datagram accepted by handleUDPRelay is forwarded with exactly
\* its own bytes: a UDP_DATA frame carries a datagram of the latched source,
\* and no two frames carry the same datagram, whatever the relay loop has
\* read into its buffer before the handler goroutine ran.
DatagramForwardedAsRead ==
    \A k \in DataFramesOut :
        /\ recvd[assocOut[k].n] = clientUDPAddr
        /\ \A j \in DataFramesOut : j # k => assocOut[j].n # assocOut[k].n

\* C40: the read pump of the server with the congestion controller keeps
\* making progress and stays cancellable with a client that sends no ACK: it
\* does not stay in WaitWindow for ever, the bytes read from the origin are
\* eventually all written (unless the pump has returned), and the pump
\* returns after the context of the WebSocket is cancelled.
PumpProgresses ==
    /\ (srvPump.pc = "window") ~> (srvPump.pc # "window")
    /\ (srvPump.read > srvPump.sent) ~>
            (srvPump.read = srvPump.sent \/ srvPump.pc = "exited")
    /\ ctxDone ~> (srvPump.pc = "exited")

====
